---------------------------- MODULE Spec2Model ----------------------------
(***************************************************************************)
(* Model of the generation service (services/geminiService) and of the     *)
(* components that call it.                                                *)
(*                                                                         *)
(* Strings whose content the code inspects or assembles (error messages,   *)
(* prompts, descriptors) are sequences of one-character strings, so that   *)
(* String.includes, .length and template concatenation are computed.       *)
(* An absent property of a JavaScript object is a missing record field.    *)
(***************************************************************************)
EXTENDS Integers, Sequences, FiniteSets, TLC

(***************************************************************************)
(* Retry configuration                                                     *)
(***************************************************************************)
RETRY_DELAY_MS == 1000
MAX_RETRIES == 20
MAX_BACKOFF_MS == 10000

(***************************************************************************)
(* Strings                                                                 *)
(***************************************************************************)
\* String.prototype.includes: pat occurs in s as a contiguous substring
Includes(s, pat) ==
    \E i \in 0..(Len(s) - Len(pat)) : SubSeq(s, i + 1, i + Len(pat)) = pat

Pat429 == <<"4","2","9">>
Pat503 == <<"5","0","3">>
PatQuota == <<"q","u","o","t","a">>
PatLimit == <<"l","i","m","i","t">>
PatQuotaExceeded == <<"Q","u","o","t","a","E","x","c","e","e","d","e","d">>

MsgTooMany == <<"T","o","o"," ","M","a","n","y"," ","R","e","q","u","e","s","t","s">>
MsgUnavailable == <<"U","n","a","v","a","i","l","a","b","l","e">>
MsgCode429 == <<"c","o","d","e"," ","4","2","9">>
MsgCode503 == <<"c","o","d","e"," ","5","0","3">>
MsgQuota == <<"q","u","o","t","a"," ","u","s","e","d"," ","u","p">>
MsgRateLimit == <<"r","a","t","e"," ","l","i","m","i","t">>
MsgQuotaExceeded == <<"Q","u","o","t","a","E","x","c","e","e","d","e","d">>
MsgBadRequest == <<"b","a","d"," ","r","e","q","u","e","s","t">>
MsgTokenLimit == <<"p","r","o","m","p","t"," ","o","v","e","r"," ","t","o","k","e","n"," ","l","i","m","i","t">>
MsgPolicy == <<"c","o","n","t","e","n","t"," ","p","o","l","i","c","y">>
MsgUnsupported == <<"u","n","s","u","p","p","o","r","t","e","d"," ","c","o","m","b","i","n","a","t","i","o","n">>
MsgNetwork == <<"f","e","t","c","h"," ","f","a","i","l","e","d">>

(***************************************************************************)
(* Errors a provider call can throw.  status / message are absent when the *)
(* thrown value has no such property.                                      *)
(***************************************************************************)
\* provider overload: rate limit, quota, service unavailable
OverloadErrors ==
    { [status |-> 429, message |-> MsgTooMany],
      [status |-> 503, message |-> MsgUnavailable],
      [message |-> MsgCode429],
      [message |-> MsgCode503],
      [message |-> MsgQuota],
      [message |-> MsgRateLimit],
      [message |-> MsgQuotaExceeded] }

\* provider rejection: malformed request, unsupported combination, content policy
RejectionErrors ==
    { [status |-> 400, message |-> MsgBadRequest],
      [status |-> 400, message |-> MsgTokenLimit],
      [status |-> 400, message |-> MsgUnsupported],
      [status |-> 400, message |-> MsgPolicy] }

\* other failures: a network error, a thrown value with no message or status
OtherErrors ==
    { [message |-> MsgNetwork],
      [status |-> 500] }

ProviderErrors == OverloadErrors \cup RejectionErrors \cup OtherErrors

\* error?.status === code
StatusIs(error, code) == "status" \in DOMAIN error /\ error.status = code

\* error?.message?.includes(pat)
MessageIncludes(error, pat) ==
    "message" \in DOMAIN error /\ Includes(error.message, pat)

\* the error-dependent part of isRetryable
RetryableClass(error) ==
    \/ StatusIs(error, 429)
    \/ StatusIs(error, 503)
    \/ MessageIncludes(error, Pat429)
    \/ MessageIncludes(error, Pat503)
    \/ MessageIncludes(error, PatQuota)
    \/ MessageIncludes(error, PatLimit)
    \/ MessageIncludes(error, PatQuotaExceeded)

(***************************************************************************)
(* Delays.  delay * 1.5 leaves the integers (5062.5, 7593.75), so a delay  *)
(* is an exact dyadic rational [n, d] = n / d with d a power of two.       *)
(***************************************************************************)
RECURSIVE Norm(_)
Norm(x) == IF x.d > 1 /\ x.n % 2 = 0 /\ x.d % 2 = 0
           THEN Norm([n |-> x.n \div 2, d |-> x.d \div 2])
           ELSE x

Ms(k) == [n |-> k, d |-> 1]
Leq(a, b) == a.n * b.d <= b.n * a.d
MinMs(a, b) == IF Leq(a, b) THEN a ELSE b
TimesOneAndHalf(x) == Norm([n |-> 3 * x.n, d |-> 2 * x.d])

VARIABLES
    rpc,        \* position of the withRetry call: "idle", "call", "wait", "done"
    retries,    \* withRetry's parameter retries of the current (recursive) call
    delay,      \* withRetry's parameter delay of the current (recursive) call
    calls,      \* number of invocations of fn made by the withRetry call
    waits,      \* the delays waited by the withRetry call, in order
    first,      \* the settled result of the first invocation of fn
    last,       \* the settled result of the latest invocation of fn
    outcome,    \* how the promise returned by withRetry settled
    op,         \* the service function being executed, with its arguments
    request,    \* the latest request sent to the provider
    vg,         \* the state of the VideoGenerator component
    gv,         \* the activation of generateVideo: position, options, operation
    ig,         \* the state of the ImageGenerator component
    apiKey,     \* process.env.API_KEY: the number of the credential in force
    reply,      \* the latest successful provider response to the call
    tasks,      \* facade calls in flight side by side, each with its own withRetry
    now,        \* Date.now(), in milliseconds since the specification starts
    sb,         \* the state of the Storyboard component
    mt,         \* the state of the ModelTrainer component
    an,         \* the state of the Analyzer component
    ed,         \* the state of the Editor component
    app         \* the state of App and of its ApiKeyModal

retryVars == <<rpc, retries, delay, calls, waits, first, last, outcome>>
videoVars == <<vg, gv>>
taskVars == <<tasks, now>>
viewVars == <<an, ed, app>>
compVars == <<sb, mt, viewVars>>
vars == <<retryVars, op, request, vg, gv, ig, apiKey, reply, tasks, now, sb, mt, viewVars>>

NoRequest == [api |-> "none"]
NoReply == [received |-> FALSE]

\* the components that are not rendered
NoViews ==
    /\ an = [mounted |-> FALSE]
    /\ ed = [mounted |-> FALSE]
    /\ app = [mounted |-> FALSE]

\* the parts of the state a specification does not use
Unused ==
    /\ tasks = <<>>
    /\ now = 0
    /\ sb = [mounted |-> FALSE]
    /\ mt = [mounted |-> FALSE]
    /\ NoViews

NoResult == [attempt |-> 0]
Pending == [state |-> "pending"]

Ok(v) == [ok |-> TRUE, value |-> v]
Throw(e) == [ok |-> FALSE, error |-> e]

(***************************************************************************)
(* withRetry                                                               *)
(***************************************************************************)
IsRetryableAnyError(error, r) == r > 0

IsRetryableNever(error, r) == FALSE

IsRetryableOneMore(error, r) == r >= 0 /\ RetryableClass(error)

\* const isRetryable = retries > 0 && ( ... )
IsRetryable(error, r) == r > 0 /\ RetryableClass(error)

NextDelayDoubling(d) == MinMs(Norm([n |-> 2 * d.n, d |-> d.d]), Ms(MAX_BACKOFF_MS))

\* const nextDelay = Math.min(delay * 1.5, MAX_BACKOFF_MS)
NextDelay(d) == MinMs(TimesOneAndHalf(d), Ms(MAX_BACKOFF_MS))

RethrownEarliest(thrown, earliest) == earliest

\* throw error: the very value caught from this invocation of fn.  A thrown
\* value is identified by the invocation that threw it.
Rethrown(thrown, earliest) == thrown

\* a withRetry whose budget and delay live outside the call: a new call goes
\* on with what the previous one left
WithRetryEnterCarryOver ==
    /\ rpc' = "call"
    /\ calls' = 0
    /\ waits' = <<>>
    /\ first' = NoResult
    /\ last' = NoResult
    /\ outcome' = Pending
    /\ UNCHANGED <<retries, delay>>

\* withRetry(fn) called with the default retries and delay
WithRetryEnter ==
    /\ rpc' = "call"
    /\ retries' = MAX_RETRIES
    /\ delay' = Ms(RETRY_DELAY_MS)
    /\ calls' = 0
    /\ waits' = <<>>
    /\ first' = NoResult
    /\ last' = NoResult
    /\ outcome' = Pending

\* try { return await fn() } catch (error) { ... }: one invocation of fn that
\* settled with result, and the decision of the catch block
\* a withRetry that starts the retry without returning its promise and
\* rethrows the error as well
WithRetryAttemptFireAndForget(result) ==
    LET this == [attempt |-> calls + 1, result |-> result]
        earliest == IF calls = 0 THEN this ELSE first
    IN  /\ rpc = "call"
        /\ calls' = calls + 1
        /\ last' = this
        /\ first' = earliest
        /\ IF result.ok
           THEN /\ rpc' = "done"
                /\ outcome' = [state |-> "resolved", value |-> result.value]
                /\ UNCHANGED <<retries, delay, waits>>
           ELSE /\ rpc' = IF IsRetryable(result.error, retries) THEN "wait" ELSE "done"
                /\ waits' = IF IsRetryable(result.error, retries) THEN Append(waits, delay) ELSE waits
                /\ outcome' = [state |-> "rejected", thrown |-> Rethrown(this, earliest)]
                /\ UNCHANGED <<retries, delay>>

WithRetryAttempt(result) ==
    LET this == [attempt |-> calls + 1, result |-> result]
        earliest == IF calls = 0 THEN this ELSE first
    IN  /\ rpc = "call"
        /\ calls' = calls + 1
        /\ last' = this
        /\ first' = earliest
        /\ IF result.ok
           THEN /\ rpc' = "done"
                /\ outcome' = [state |-> "resolved", value |-> result.value]
                /\ UNCHANGED <<retries, delay, waits>>
           ELSE IF IsRetryable(result.error, retries)
           THEN /\ rpc' = "wait"
                /\ waits' = Append(waits, delay)
                /\ UNCHANGED <<retries, delay, outcome>>
           ELSE /\ rpc' = "done"
                /\ outcome' = [state |-> "rejected",
                               thrown |-> Rethrown(this, earliest)]
                /\ UNCHANGED <<retries, delay, waits>>

\* the timer of setTimeout(r, delay) fires: return withRetry(fn, retries - 1, nextDelay)
WithRetryResume ==
    /\ rpc = "wait"
    /\ rpc' = "call"
    /\ retries' = retries - 1
    /\ delay' = NextDelay(delay)
    /\ UNCHANGED <<calls, waits, first, last, outcome>>

(***************************************************************************)
(* withRetry around an arbitrary operation fn                              *)
(***************************************************************************)
FnValues == {"v1", "v2"}

RetryInit ==
    /\ rpc = "call"
    /\ retries = MAX_RETRIES
    /\ delay = Ms(RETRY_DELAY_MS)
    /\ calls = 0
    /\ waits = <<>>
    /\ first = NoResult
    /\ last = NoResult
    /\ outcome = Pending
    /\ op = [name |-> "fn"]
    /\ request = NoRequest
    /\ vg = [mounted |-> FALSE]
    /\ gv = [pc |-> "idle"]
    /\ ig = [mounted |-> FALSE]
    /\ apiKey = "key-A"
    /\ reply = NoReply
    /\ Unused

FnResolves ==
    /\ \E v \in FnValues : WithRetryAttempt(Ok(v))
    /\ UNCHANGED <<op, request, videoVars, ig, apiKey, reply, taskVars, compVars>>

FnRejects ==
    /\ \E e \in ProviderErrors : WithRetryAttempt(Throw(e))
    /\ UNCHANGED <<op, request, videoVars, ig, apiKey, reply, taskVars, compVars>>

FnRetry ==
    /\ WithRetryResume
    /\ UNCHANGED <<op, request, videoVars, ig, apiKey, reply, taskVars, compVars>>

RetryNext == FnResolves \/ FnRejects \/ FnRetry

SpecRetry == RetryInit /\ [][RetryNext]_vars

SpecRetryFair == SpecRetry /\ WF_vars(RetryNext)

(***************************************************************************)
(* generateImage and editImage                                             *)
(***************************************************************************)
MaxParts == 2

MsgNoImage == <<"N","o"," ","i","m","a","g","e"," ","g","e","n","e","r","a","t","e","d",".">>
MsgNoEditedImage == <<"N","o"," ","e","d","i","t","e","d"," ","i","m","a","g","e"," ","g","e","n","e","r","a","t","e","d",".">>

\* enum ImageAspectRatio
ImageAspectRatio == {"1:1", "3:4", "4:3", "16:9", "9:16"}

ImagePrompts ==
    { <<"a"," ","r","e","d"," ","b","a","l","l","o","o","n">>,
      <<"a"," ","r","e","d"," ","b","a","l","l","o","o","n"," ","o","v","e","r"," ","P","a","r","i","s">> }
Base64Images == { <<"i","V","B","O">>, <<"R","0","l","G">> }
MimeTypes == { "image/png", "image/jpeg" }

\* errors the provider throws in the image and video scenarios: one of each
\* class is enough there, withRetry's classification is explored by SpecRetry
ScenarioErrors ==
    { [status |-> 429, message |-> MsgTooMany],
      [status |-> 400, message |-> MsgBadRequest] }

\* the parts of a provider reply: text parts and parts with inline data
ReplyParts ==
    { [text |-> "caption"] } \cup { [inlineData |-> [data |-> d]] : d \in Base64Images }

RECURSIVE SeqsUpTo(_, _)
SeqsUpTo(S, n) ==
    IF n = 0 THEN { <<>> }
    ELSE LET shorter == SeqsUpTo(S, n - 1)
         IN  shorter \cup { Append(q, x) : q \in { t \in shorter : Len(t) = n - 1 }, x \in S }

\* provider replies: a candidate with up to MaxParts parts, or no candidate
ImageReplies ==
    { [candidates |-> << [content |-> [parts |-> ps]] >>] : ps \in SeqsUpTo(ReplyParts, MaxParts) }
        \cup { [candidates |-> <<>>] }

\* highQuality ? "gemini-3-pro-image-preview" : "gemini-2.5-flash-image"
ImageModel(highQuality) ==
    IF highQuality THEN "gemini-3-pro-image-preview" ELSE "gemini-2.5-flash-image"

GenerateImageConfigAlways2K(aspectRatio, highQuality) ==
    [imageConfig |-> [aspectRatio |-> aspectRatio, imageSize |-> "2K"]]

\* generateImage: config = { imageConfig: { aspectRatio } }, plus imageSize if highQuality
GenerateImageConfig(aspectRatio, highQuality) ==
    IF highQuality
    THEN [imageConfig |-> [aspectRatio |-> aspectRatio, imageSize |-> "2K"]]
    ELSE [imageConfig |-> [aspectRatio |-> aspectRatio]]

EmptyObject == [k \in {} |-> k]

EditImageConfigFlashBare(aspectRatio, highQuality) ==
    IF highQuality
    THEN [imageConfig |-> [imageSize |-> "2K", aspectRatio |-> aspectRatio]]
    ELSE EmptyObject

\* editImage: config = {}, then config.imageConfig set in both branches
EditImageConfig(aspectRatio, highQuality) ==
    IF highQuality
    THEN [imageConfig |-> [imageSize |-> "2K", aspectRatio |-> aspectRatio]]
    ELSE [imageConfig |-> [aspectRatio |-> aspectRatio]]

\* the argument of ai.models.generateContent in generateImage
GenerateImageRequest(o) ==
    [api |-> "generateContent",
     model |-> ImageModel(o.highQuality),
     contents |-> [parts |-> << [text |-> o.prompt] >>],
     config |-> GenerateImageConfig(o.aspectRatio, o.highQuality)]

\* the argument of ai.models.generateContent in editImage;
\* config: Object.keys(config).length > 0 ? config : undefined
EditImageRequest(o) ==
    LET config == EditImageConfig(o.aspectRatio, o.highQuality)
        parts == << [inlineData |-> [data |-> o.base64Image, mimeType |-> o.mimeType]],
                    [text |-> o.prompt] >>
    IN  IF Cardinality(DOMAIN config) > 0
        THEN [api |-> "generateContent",
              model |-> ImageModel(o.highQuality),
              contents |-> [parts |-> parts],
              config |-> config]
        ELSE [api |-> "generateContent",
              model |-> ImageModel(o.highQuality),
              contents |-> [parts |-> parts]]

ImageRequest(o) ==
    IF o.name = "generateImage" THEN GenerateImageRequest(o) ELSE EditImageRequest(o)

\* response.candidates?.[0]?.content?.parts || []
ResponseParts(response) ==
    IF Len(response.candidates) > 0 THEN response.candidates[1].content.parts ELSE <<>>

DataUriPrefix == <<"data:image/png;base64,">>

RECURSIVE LastInline(_)
\* the last part with inline data; 0 when none
LastInline(parts) ==
    IF parts = <<>> THEN 0
    ELSE IF "inlineData" \in DOMAIN parts[Len(parts)] THEN Len(parts)
    ELSE LastInline(SubSeq(parts, 1, Len(parts) - 1))

RECURSIVE FirstInline(_)
\* for (const part of parts) if (part.inlineData) return ...; 0 when none
FirstInline(parts) ==
    IF parts = <<>> THEN 0
    ELSE IF "inlineData" \in DOMAIN Head(parts) THEN 1
    ELSE LET k == FirstInline(Tail(parts)) IN IF k = 0 THEN 0 ELSE k + 1

\* the result of the function passed to withRetry, given the provider's reply
ImageFnResult(o, response) ==
    LET parts == ResponseParts(response)
        k == FirstInline(parts)
    IN  IF k > 0
        THEN Ok(DataUriPrefix \o parts[k].inlineData.data)
        ELSE Throw([message |-> IF o.name = "generateImage"
                                THEN MsgNoImage ELSE MsgNoEditedImage])

ImageInit ==
    /\ rpc = "idle"
    /\ retries = MAX_RETRIES
    /\ delay = Ms(RETRY_DELAY_MS)
    /\ calls = 0
    /\ waits = <<>>
    /\ first = NoResult
    /\ last = NoResult
    /\ outcome = Pending
    /\ op = [name |-> "none"]
    /\ request = NoRequest
    /\ vg = [mounted |-> FALSE]
    /\ gv = [pc |-> "idle"]
    /\ ig = [mounted |-> FALSE]
    /\ apiKey = "key-A"
    /\ reply = NoReply
    /\ Unused

\* generateImage(prompt, aspectRatio, highQuality) is called
GenerateImage ==
    /\ rpc = "idle"
    /\ \E prompt \in ImagePrompts, aspectRatio \in ImageAspectRatio, highQuality \in BOOLEAN :
          op' = [name |-> "generateImage", prompt |-> prompt,
                 aspectRatio |-> aspectRatio, highQuality |-> highQuality]
    /\ WithRetryEnter
    /\ UNCHANGED <<request, videoVars, ig, apiKey, reply, taskVars, compVars>>

\* editImage(base64Image, prompt, mimeType, highQuality, aspectRatio) is called
EditImage ==
    /\ rpc = "idle"
    /\ \E base64Image \in Base64Images, prompt \in ImagePrompts, mimeType \in MimeTypes,
          highQuality \in BOOLEAN, aspectRatio \in ImageAspectRatio :
          op' = [name |-> "editImage", base64Image |-> base64Image, prompt |-> prompt,
                 mimeType |-> mimeType, highQuality |-> highQuality,
                 aspectRatio |-> aspectRatio]
    /\ WithRetryEnter
    /\ UNCHANGED <<request, videoVars, ig, apiKey, reply, taskVars, compVars>>

\* one invocation of the function passed to withRetry: the request is built
\* and sent, and the provider answers
ImageCallAnswered ==
    /\ op.name \in {"generateImage", "editImage"}
    /\ request' = ImageRequest(op)
    /\ \E response \in ImageReplies :
          /\ reply' = [received |-> TRUE, attempt |-> calls + 1, response |-> response]
          /\ WithRetryAttempt(ImageFnResult(op, response))
    /\ UNCHANGED <<op, videoVars, ig, apiKey, taskVars, compVars>>

\* one invocation of the function passed to withRetry: the request is built
\* and sent, and the provider call throws
ImageCallFails ==
    /\ op.name \in {"generateImage", "editImage"}
    /\ request' = ImageRequest(op)
    /\ \E e \in ScenarioErrors : WithRetryAttempt(Throw(e))
    /\ UNCHANGED <<op, videoVars, ig, apiKey, reply, taskVars, compVars>>

ImageRetry ==
    /\ op.name \in {"generateImage", "editImage"}
    /\ WithRetryResume
    /\ UNCHANGED <<op, request, videoVars, ig, apiKey, reply, taskVars, compVars>>

ImageNext == GenerateImage \/ EditImage \/ ImageCallAnswered \/ ImageCallFails \/ ImageRetry

SpecImage == ImageInit /\ [][ImageNext]_vars

(***************************************************************************)
(* generateVideo                                                           *)
(***************************************************************************)
MaxPolls == 2

\* setTimeout(resolve, 5000) of the polling loop
PollIntervalMs == 5000

\* the amounts of time that pass between two observations of the poll timer
ClockSteps == {2500, 5000}

\* the values process.env.API_KEY takes
ApiKeys == {"key-A", "key-B"}

MsgNoUri == <<"V","i","d","e","o"," ","g","e","n","e","r","a","t","i","o","n"," ","f","a","i","l","e","d"," ","o","r"," ","r","e","t","u","r","n","e","d"," ","n","o"," ","U","R","I",".">>
MsgDownload == <<"F","a","i","l","e","d"," ","t","o"," ","d","o","w","n","l","o","a","d"," ","g","e","n","e","r","a","t","e","d"," ","v","i","d","e","o",".">>
AnimateThisImage == <<"A","n","i","m","a","t","e"," ","t","h","i","s"," ","i","m","a","g","e">>
ACinematicVideo == <<"A"," ","c","i","n","e","m","a","t","i","c"," ","v","i","d","e","o">>

\* enum VideoResolution
VideoResolution == {"720p", "1080p"}
VideoAspectRatios == {"16:9", "9:16"}

\* const hasRefs = referenceImages && referenceImages.length > 0
\* (an undefined list and an empty list are both the empty sequence)
HasRefs(referenceImages) == Len(referenceImages) > 0

\* const model = hasRefs ? "veo-3.1-generate-preview" : "veo-3.1-fast-generate-preview"
VideoModel(referenceImages) ==
    IF HasRefs(referenceImages)
    THEN "veo-3.1-generate-preview"
    ELSE "veo-3.1-fast-generate-preview"

\* every reference image given, mapped
RefsToUseAll(referenceImages) ==
    [i \in 1..Len(referenceImages) |->
        [image |-> [imageBytes |-> referenceImages[i], mimeType |-> "image/png"],
         referenceType |-> "ASSET"]]

\* referenceImages.slice(0, 3).map(img => ({ image: {...}, referenceType: 'ASSET' }))
RefsToUse(referenceImages) ==
    LET n == IF Len(referenceImages) < 3 THEN Len(referenceImages) ELSE 3
    IN  [i \in 1..n |->
            [image |-> [imageBytes |-> referenceImages[i], mimeType |-> "image/png"],
             referenceType |-> "ASSET"]]

VideoConfigAsRequested(resolution, aspectRatio, referenceImages) ==
    IF HasRefs(referenceImages)
    THEN [numberOfVideos |-> 1,
          resolution |-> resolution,
          aspectRatio |-> aspectRatio,
          referenceImages |-> RefsToUse(referenceImages)]
    ELSE [numberOfVideos |-> 1,
          resolution |-> resolution,
          aspectRatio |-> aspectRatio]

\* config = { numberOfVideos: 1, resolution: hasRefs ? '720p' : resolution,
\*            aspectRatio: hasRefs ? '16:9' : aspectRatio }
\* and, if hasRefs, config.referenceImages
VideoConfig(resolution, aspectRatio, referenceImages) ==
    IF HasRefs(referenceImages)
    THEN [numberOfVideos |-> 1,
          resolution |-> "720p",
          aspectRatio |-> "16:9",
          referenceImages |-> RefsToUse(referenceImages)]
    ELSE [numberOfVideos |-> 1,
          resolution |-> resolution,
          aspectRatio |-> aspectRatio]

\* the prompt as the caller gave it
VideoPromptTextAsGiven(prompt, startImage) == prompt

\* prompt || (startImage ? "Animate this image" : "A cinematic video")
\* (an undefined, null or empty start image is the empty sequence)
VideoPromptText(prompt, startImage) ==
    IF prompt # <<>> THEN prompt
    ELSE IF startImage # <<>> THEN AnimateThisImage
    ELSE ACinematicVideo

\* options = { model, prompt, config }, and options.image when there are no
\* reference images and a start image is given
VideoOptions(o) ==
    IF ~HasRefs(o.referenceImages) /\ o.startImage # <<>>
    THEN [model |-> VideoModel(o.referenceImages),
          prompt |-> VideoPromptText(o.prompt, o.startImage),
          config |-> VideoConfig(o.resolution, o.aspectRatio, o.referenceImages),
          image |-> [imageBytes |-> o.startImage, mimeType |-> "image/png"]]
    ELSE [model |-> VideoModel(o.referenceImages),
          prompt |-> VideoPromptText(o.prompt, o.startImage),
          config |-> VideoConfig(o.resolution, o.aspectRatio, o.referenceImages)]

\* operation handles the provider returns: still running (no done flag),
\* done with a video uri, done without one
HandleRunning == [name |-> "operations/1"]
HandleDone == [name |-> "operations/1", done |-> TRUE,
               response |-> [generatedVideos |-> << [video |-> [uri |-> <<"https://video/1">>]] >>]]
HandleDoneNoVideo == [name |-> "operations/1", done |-> TRUE,
                      response |-> [generatedVideos |-> <<>>]]
HandleDoneNoResponse == [name |-> "operations/1", done |-> TRUE]

\* the handles the provider may answer with after polls status queries: it
\* reports the job running for at most MaxPolls queries
Handles(polls) ==
    {HandleDone, HandleDoneNoVideo, HandleDoneNoResponse}
        \cup (IF polls < MaxPolls THEN {HandleRunning} ELSE {})

\* operation.done
OperationDone(operation) == "done" \in DOMAIN operation /\ operation.done

\* operation.response?.generatedVideos?.[0]?.video?.uri, <<>> when undefined
OperationUri(operation) ==
    IF /\ "response" \in DOMAIN operation
       /\ "generatedVideos" \in DOMAIN operation.response
       /\ Len(operation.response.generatedVideos) > 0
       /\ "video" \in DOMAIN operation.response.generatedVideos[1]
       /\ "uri" \in DOMAIN operation.response.generatedVideos[1].video
    THEN operation.response.generatedVideos[1].video.uri
    ELSE <<>>

\* getClient(): new GoogleGenAI({ apiKey: process.env.API_KEY }); the client
\* is the key it was made with
GetClient == apiKey

\* `${uri}&key=${process.env.API_KEY}`: the key the download uses
FetchKey == apiKey

\* a 5000 ms timer that fires as soon as it is set
PollTimerFiresAtOnce(timer) == TRUE

\* the timer of the polling loop fires when its time has run out
PollTimerFires(timer) == timer = 0

\* the loop test of a loop that never ends on done
LoopExitsNever(operation) == FALSE

\* the loop test of a loop that goes on until a uri is there
LoopExitsWithUri(operation) == OperationDone(operation) /\ OperationUri(operation) # <<>>

\* the loop test of a loop that gives up after one status query
LoopExitsAfterOnePoll(operation) == OperationDone(operation) \/ gv.polls >= 1

\* while (!operation.done): the loop is left when the handle is done
LoopExits(operation) == OperationDone(operation)

\* generateVideo(prompt, resolution, aspectRatio, referenceImages, startImage)
\* up to its first await: the options are built and withRetry is entered
\* with the submission
GenerateVideo(prompt, resolution, aspectRatio, referenceImages, startImage) ==
    LET o == [name |-> "generateVideo", prompt |-> prompt, resolution |-> resolution,
              aspectRatio |-> aspectRatio, referenceImages |-> referenceImages,
              startImage |-> startImage]
    IN  /\ op' = o
        /\ gv' = [pc |-> "submit", options |-> VideoOptions(o), polls |-> 0,
                  key |-> GetClient, handles |-> <<>>]
        /\ WithRetryEnter
        /\ UNCHANGED <<request, ig, apiKey, reply, taskVars, compVars>>

\* ai.models.generateVideos(options) answers with an operation handle
VideoSubmitAnswered ==
    /\ gv.pc = "submit"
    /\ request' = [api |-> "generateVideos", options |-> gv.options, key |-> gv.key]
    /\ \E h \in Handles(gv.polls) : WithRetryAttempt(Ok(h))
    /\ UNCHANGED <<op, vg, gv, ig, apiKey, reply, taskVars, compVars>>

\* ai.models.generateVideos(options) throws
VideoSubmitFails ==
    /\ gv.pc = "submit"
    /\ request' = [api |-> "generateVideos", options |-> gv.options, key |-> gv.key]
    /\ \E e \in ScenarioErrors : WithRetryAttempt(Throw(e))
    /\ UNCHANGED <<op, vg, gv, ig, apiKey, reply, taskVars, compVars>>

\* ai.operations.getVideosOperation({ operation }) answers with a handle
VideoPollAnswered ==
    /\ gv.pc = "poll"
    /\ request' = [api |-> "getVideosOperation", operation |-> gv.operation, key |-> gv.key]
    /\ \E h \in Handles(gv.polls) : WithRetryAttempt(Ok(h))
    /\ UNCHANGED <<op, vg, gv, ig, apiKey, reply, taskVars, compVars>>

\* ai.operations.getVideosOperation({ operation }) throws
VideoPollFails ==
    /\ gv.pc = "poll"
    /\ request' = [api |-> "getVideosOperation", operation |-> gv.operation, key |-> gv.key]
    /\ \E e \in ScenarioErrors : WithRetryAttempt(Throw(e))
    /\ UNCHANGED <<op, vg, gv, ig, apiKey, reply, taskVars, compVars>>

\* the retry timer of the submission or of a status query fires
VideoRetry ==
    /\ gv.pc \in {"submit", "poll"}
    /\ WithRetryResume
    /\ UNCHANGED <<op, request, vg, gv, ig, apiKey, reply, taskVars, compVars>>

\* operation = await withRetry(...) resumes: a rejection leaves generateVideo;
\* otherwise the loop condition is tested, and after the loop the uri is
\* read and the download is started
VideoAwaitResumes ==
    /\ gv.pc \in {"submit", "poll"}
    /\ rpc = "done"
    /\ IF outcome.state = "rejected"
       THEN gv' = [pc |-> "rejected", options |-> gv.options, polls |-> gv.polls,
                   key |-> gv.key, handles |-> gv.handles,
                   error |-> outcome.thrown.result.error]
       ELSE LET operation == outcome.value
                handles == Append(gv.handles, operation)
            IN  IF ~LoopExits(operation)
                THEN gv' = [pc |-> "sleep", options |-> gv.options, polls |-> gv.polls,
                            key |-> gv.key, handles |-> handles,
                            operation |-> operation,
                            timer |-> PollIntervalMs, elapsed |-> 0]
                ELSE IF OperationUri(operation) = <<>>
                THEN gv' = [pc |-> "rejected", options |-> gv.options, polls |-> gv.polls,
                            key |-> gv.key, handles |-> handles,
                            operation |-> operation, error |-> [message |-> MsgNoUri]]
                ELSE gv' = [pc |-> "fetch", options |-> gv.options, polls |-> gv.polls,
                            key |-> gv.key, handles |-> handles,
                            operation |-> operation,
                            url |-> OperationUri(operation) \o <<"&key=", FetchKey>>]
    /\ UNCHANGED <<retryVars, op, request, vg, ig, apiKey, reply, taskVars, compVars>>

\* time passes while the polling loop waits for its timer
VideoClockAdvances ==
    /\ gv.pc = "sleep"
    /\ gv.timer > 0
    /\ \E d \in ClockSteps :
          gv' = [gv EXCEPT !.timer = IF @ > d THEN @ - d ELSE 0,
                           !.elapsed = @ + d]
    /\ UNCHANGED <<retryVars, op, request, vg, ig, apiKey, reply, taskVars, compVars>>

\* the 5000 ms timer of the polling loop fires: the status query is issued
\* through withRetry
VideoPollTimer ==
    /\ gv.pc = "sleep"
    /\ PollTimerFires(gv.timer)
    /\ gv' = [gv EXCEPT !.pc = "poll", !.polls = @ + 1]
    /\ WithRetryEnter
    /\ UNCHANGED <<op, request, vg, ig, apiKey, reply, taskVars, compVars>>

\* fetch(uri) answers: ok (the blob becomes an object URL) or not ok
VideoFetchAnswered ==
    /\ gv.pc = "fetch"
    /\ \E ok \in BOOLEAN :
          gv' = IF ok
                THEN [pc |-> "resolved", options |-> gv.options, polls |-> gv.polls,
                      key |-> gv.key, handles |-> gv.handles,
                      operation |-> gv.operation, download |-> "ok",
                      value |-> <<"blob:video">>]
                ELSE [pc |-> "rejected", options |-> gv.options, polls |-> gv.polls,
                      key |-> gv.key, handles |-> gv.handles,
                      operation |-> gv.operation, download |-> "not ok",
                      error |-> [message |-> MsgDownload]]
    /\ request' = [api |-> "fetch", url |-> gv.url]
    /\ UNCHANGED <<retryVars, op, vg, ig, apiKey, reply, taskVars, compVars>>

\* fetch(uri) rejects (network failure)
VideoFetchFails ==
    /\ gv.pc = "fetch"
    /\ gv' = [pc |-> "rejected", options |-> gv.options, polls |-> gv.polls,
              key |-> gv.key, handles |-> gv.handles,
              operation |-> gv.operation, download |-> "network error",
              error |-> [message |-> MsgNetwork]]
    /\ request' = [api |-> "fetch", url |-> gv.url]
    /\ UNCHANGED <<retryVars, op, vg, ig, apiKey, reply, taskVars, compVars>>

\* process.env.API_KEY is replaced: the user selects another key in the key
\* dialog while a video job is in flight
RotateKey ==
    /\ gv.pc \in {"submit", "poll", "sleep"}
    /\ \E k \in ApiKeys \ {apiKey} : apiKey' = k
    /\ UNCHANGED <<retryVars, op, request, vg, gv, ig, reply, taskVars, compVars>>

(***************************************************************************)
(* VideoGenerator                                                          *)
(***************************************************************************)
CinematicPrefix == <<"C","i","n","e","m","a","t","i","c"," ","s","h","o","t","."," ","C","h","a","r","a","c","t","e","r"," ","V","i","s","u","a","l","s",":"," ">>
CinematicAction == <<"."," ","A","c","t","i","o","n",":"," ">>
PromptRun == <<"a"," ","k","n","i","g","h","t"," ","r","u","n","s">>
DescLong == <<"r","e","d"," ","h","a","i","r">>
DescShort == <<"e","l","f">>
Img1 == <<"i","V","B","O">>
Img2 == <<"R","0","l","G">>

VideoPrompts == { <<>>, PromptRun }

\* getAllModels(): the personas in the store (an absent or empty
\* consistencyContext / referenceImages is the empty sequence)
StoredModels ==
    << [id |-> "m1", consistencyContext |-> DescLong,  referenceImages |-> <<>>],
       [id |-> "m2", consistencyContext |-> DescLong,  referenceImages |-> <<Img1, Img2>>],
       [id |-> "m3", consistencyContext |-> <<>>,      referenceImages |-> <<Img1, Img2, Img1>>],
       [id |-> "m4", consistencyContext |-> DescShort, referenceImages |-> <<Img2, Img1, Img2, Img1>>],
       [id |-> "m5", consistencyContext |-> DescShort, referenceImages |-> <<>>] >>

ModelIds(models) == { models[i].id : i \in 1..Len(models) }

\* models.filter(m => (m.consistencyContext && m.consistencyContext.length > 5)
\*                    || (m.referenceImages && m.referenceImages.length > 0))
VideoModelFilter(m) ==
    \/ (m.consistencyContext # <<>> /\ Len(m.consistencyContext) > 5)
    \/ Len(m.referenceImages) > 0

\* customModels.find(m => m.id === selectedModelId): index of the first match, 0 if none
FindModel(models, id) ==
    IF \E i \in 1..Len(models) : models[i].id = id
    THEN CHOOSE i \in 1..Len(models) :
            /\ models[i].id = id
            /\ \A j \in 1..(i - 1) : models[j].id # id
    ELSE 0

\* const hasRefImages = selectedModel?.referenceImages && selectedModel.referenceImages.length > 0
HasRefImages(c) ==
    LET k == FindModel(c.customModels, c.selectedModelId)
    IN  k > 0 /\ Len(c.customModels[k].referenceImages) > 0

\* handleGenerate composing as if the start image did not matter
ComposeVideoDespiteStartImage(c) ==
    LET k == IF c.selectedModelId # ""
             THEN FindModel(c.customModels, c.selectedModelId)
             ELSE 0
    IN  [finalPrompt |->
            IF k > 0 /\ c.customModels[k].consistencyContext # <<>>
            THEN CinematicPrefix \o c.customModels[k].consistencyContext
                    \o CinematicAction \o c.prompt
            ELSE c.prompt,
         refImages |->
            IF k > 0 /\ Len(c.customModels[k].referenceImages) > 0
            THEN c.customModels[k].referenceImages
            ELSE <<>>]

\* handleGenerate: finalPrompt and refImages (Apply Character Context)
ComposeVideo(c) ==
    LET k == IF c.selectedModelId # "" /\ c.startImage = <<>>
             THEN FindModel(c.customModels, c.selectedModelId)
             ELSE 0
    IN  [finalPrompt |->
            IF k > 0 /\ c.customModels[k].consistencyContext # <<>>
            THEN CinematicPrefix \o c.customModels[k].consistencyContext
                    \o CinematicAction \o c.prompt
            ELSE c.prompt,
         refImages |->
            IF k > 0 /\ Len(c.customModels[k].referenceImages) > 0
            THEN c.customModels[k].referenceImages
            ELSE <<>>]

\* the component mounts: state defaults; the mount effect auto-selects the id
\* left in localStorage by the Model Trainer, if any
VideoInit ==
    /\ rpc = "idle"
    /\ retries = MAX_RETRIES
    /\ delay = Ms(RETRY_DELAY_MS)
    /\ calls = 0
    /\ waits = <<>>
    /\ first = NoResult
    /\ last = NoResult
    /\ outcome = Pending
    /\ op = [name |-> "none"]
    /\ request = NoRequest
    /\ gv = [pc |-> "idle"]
    /\ ig = [mounted |-> FALSE]
    /\ apiKey = "key-A"
    /\ reply = NoReply
    /\ Unused
    /\ \E auto \in {""} \cup ModelIds(StoredModels) :
          vg = [mounted |-> TRUE, prompt |-> <<>>, resolution |-> "720p",
                aspectRatio |-> "16:9", loading |-> FALSE, videoUrl |-> <<>>,
                startImage |-> <<>>, customModels |-> <<>>,
                selectedModelId |-> auto, history |-> <<>>, alerts |-> 0]

\* user input is explored while no generation has been started
Editing == gv.pc = "idle" /\ ~vg.loading

\* getAllModels().then(models => setCustomModels(models.filter(...)))
ModelsLoaded ==
    /\ Editing
    /\ vg.customModels = <<>>
    /\ vg' = [vg EXCEPT !.customModels = SelectSeq(StoredModels, VideoModelFilter)]
    /\ UNCHANGED <<retryVars, op, request, gv, ig, apiKey, reply, taskVars, compVars>>

\* onChange of the prompt textarea
SetPrompt ==
    /\ Editing
    /\ \E p \in VideoPrompts : p # vg.prompt /\ vg' = [vg EXCEPT !.prompt = p]
    /\ UNCHANGED <<retryVars, op, request, gv, ig, apiKey, reply, taskVars, compVars>>

\* handleImageUpload (a start image is chosen) and the remove button
SetStartImage ==
    /\ Editing
    /\ \E img \in {<<>>, Img1} : img # vg.startImage /\ vg' = [vg EXCEPT !.startImage = img]
    /\ UNCHANGED <<retryVars, op, request, gv, ig, apiKey, reply, taskVars, compVars>>

\* onChange of the persona selector, rendered when there is no start image
\* and customModels is not empty
SetSelectedModelId ==
    /\ Editing
    /\ vg.startImage = <<>>
    /\ Len(vg.customModels) > 0
    /\ \E id \in {""} \cup ModelIds(vg.customModels) :
          id # vg.selectedModelId /\ vg' = [vg EXCEPT !.selectedModelId = id]
    /\ UNCHANGED <<retryVars, op, request, gv, ig, apiKey, reply, taskVars, compVars>>

\* onClick of a resolution button: !hasRefImages && setResolution(res)
SetResolution ==
    /\ Editing
    /\ ~HasRefImages(vg)
    /\ \E res \in VideoResolution : res # vg.resolution /\ vg' = [vg EXCEPT !.resolution = res]
    /\ UNCHANGED <<retryVars, op, request, gv, ig, apiKey, reply, taskVars, compVars>>

\* onChange of the aspect ratio selector, disabled when hasRefImages
SetAspectRatio ==
    /\ Editing
    /\ ~HasRefImages(vg)
    /\ \E a \in VideoAspectRatios : a # vg.aspectRatio /\ vg' = [vg EXCEPT !.aspectRatio = a]
    /\ UNCHANGED <<retryVars, op, request, gv, ig, apiKey, reply, taskVars, compVars>>

\* handleGenerate up to await generateVideo(...); the button is disabled
\* while loading or when there is neither a prompt nor a start image
HandleGenerate ==
    /\ gv.pc = "idle"
    /\ ~vg.loading
    /\ ~(vg.prompt = <<>> /\ vg.startImage = <<>>)
    /\ vg' = [vg EXCEPT !.loading = TRUE, !.videoUrl = <<>>]
    /\ LET composed == ComposeVideo(vg)
       IN  GenerateVideo(composed.finalPrompt, vg.resolution, vg.aspectRatio,
                         composed.refImages, vg.startImage)

\* handleGenerate after await generateVideo(...): the url and the history
\* entry on success, the alert on failure, and finally setLoading(false)
HandleGenerateResumes ==
    /\ gv.pc \in {"resolved", "rejected"}
    /\ vg.loading
    /\ IF gv.pc = "resolved"
       THEN vg' = [vg EXCEPT !.loading = FALSE,
                             !.videoUrl = gv.value,
                             !.history = << [type |-> "video", url |-> gv.value,
                                             prompt |-> IF vg.prompt # <<>> THEN vg.prompt
                                                        ELSE <<"Image Animation">>] >> \o @]
       ELSE vg' = [vg EXCEPT !.loading = FALSE, !.alerts = @ + 1]
    /\ gv' = [pc |-> "returned", settled |-> gv.pc, options |-> gv.options,
              polls |-> gv.polls, key |-> gv.key, handles |-> gv.handles]
    /\ UNCHANGED <<retryVars, op, request, ig, apiKey, reply, taskVars, compVars>>

VideoNext ==
    \/ ModelsLoaded
    \/ SetPrompt
    \/ SetStartImage
    \/ SetSelectedModelId
    \/ SetResolution
    \/ SetAspectRatio
    \/ HandleGenerate
    \/ VideoSubmitAnswered
    \/ VideoSubmitFails
    \/ VideoPollAnswered
    \/ VideoPollFails
    \/ VideoRetry
    \/ VideoAwaitResumes
    \/ VideoClockAdvances
    \/ VideoPollTimer
    \/ VideoFetchAnswered
    \/ VideoFetchFails
    \/ HandleGenerateResumes

SpecVideo == VideoInit /\ [][VideoNext]_vars

\* timers fire, the provider and the download answer, awaits resume
SpecVideoFair == SpecVideo /\ WF_vars(VideoNext)

\* the same component in a process whose key is replaced during a job
VideoRotationNext == VideoNext \/ RotateKey

SpecVideoRotation == VideoInit /\ [][VideoRotationNext]_vars

(***************************************************************************)
(* ImageGenerator                                                          *)
(***************************************************************************)
CharacterReference == <<"C","h","a","r","a","c","t","e","r"," ","R","e","f","e","r","e","n","c","e",":"," ">>
SceneAction == <<"."," ","\n","\n","S","c","e","n","e","/","A","c","t","i","o","n",":"," ">>
Instruction == <<" ","\n","\n","I","n","s","t","r","u","c","t","i","o","n",":"," ","E","n","s","u","r","e"," ","t","h","e"," ","c","h","a","r","a","c","t","e","r","'","s"," ","v","i","s","u","a","l"," ","d","e","t","a","i","l","s"," ","m","a","t","c","h"," ","t","h","e"," ","r","e","f","e","r","e","n","c","e"," ","e","x","a","c","t","l","y",".">>
DescFive == <<"g","r","e","e","n">>
DescSix == <<"p","u","r","p","l","e">>

\* getAllModels() as the ImageGenerator sees it: the personas of the store,
\* among them descriptors of 5 and of 6 characters
ImageStoredModels ==
    StoredModels \o
    << [id |-> "m6", consistencyContext |-> DescFive, referenceImages |-> <<>>],
       [id |-> "m7", consistencyContext |-> DescSix,  referenceImages |-> <<>>] >>

\* models.filter(m => m.consistencyContext && m.consistencyContext.length > 5)
ImageModelFilter(m) ==
    m.consistencyContext # <<>> /\ Len(m.consistencyContext) > 5

\* `Character Reference: ${ctx}. \n\nScene/Action: ${prompt} \n\nInstruction: ...`
CharacterTemplate(consistencyContext, prompt) ==
    CharacterReference \o consistencyContext \o SceneAction \o prompt \o Instruction

\* handleGenerate: finalPrompt (Apply Consistency Context if selected)
ComposeImage(c) ==
    LET k == IF c.selectedModelId # ""
             THEN FindModel(c.customModels, c.selectedModelId)
             ELSE 0
    IN  IF k > 0 /\ c.customModels[k].consistencyContext # <<>>
        THEN CharacterTemplate(c.customModels[k].consistencyContext, c.prompt)
        ELSE c.prompt

\* the component mounts: state defaults; the mount effect auto-selects the id
\* left in localStorage by the Model Trainer, if any; getAllModels() is pending
ImageGenInit ==
    /\ rpc = "idle"
    /\ retries = MAX_RETRIES
    /\ delay = Ms(RETRY_DELAY_MS)
    /\ calls = 0
    /\ waits = <<>>
    /\ first = NoResult
    /\ last = NoResult
    /\ outcome = Pending
    /\ op = [name |-> "none"]
    /\ request = NoRequest
    /\ vg = [mounted |-> FALSE]
    /\ gv = [pc |-> "idle"]
    /\ apiKey = "key-A"
    /\ reply = NoReply
    /\ Unused
    /\ \E auto \in {""} \cup ModelIds(ImageStoredModels) :
          ig = [mounted |-> TRUE, pc |-> "idle", prompt |-> <<>>, aspectRatio |-> "1:1",
                highQuality |-> FALSE, loading |-> FALSE, result |-> <<>>,
                customModels |-> <<>>, modelsLoaded |-> FALSE,
                selectedModelId |-> auto, history |-> <<>>, alerts |-> 0]

\* user input is explored while no generation has been started
ImageEditing == ig.mounted /\ ig.pc = "idle" /\ ~ig.loading

\* getAllModels().then(models => setCustomModels(models.filter(...)))
ImageModelsLoaded ==
    /\ ig.mounted
    /\ ~ig.modelsLoaded
    /\ ig' = [ig EXCEPT !.customModels = SelectSeq(ImageStoredModels, ImageModelFilter),
                        !.modelsLoaded = TRUE]
    /\ UNCHANGED <<retryVars, op, request, videoVars, apiKey, reply, taskVars, compVars>>

\* onChange of the prompt textarea
ImageSetPrompt ==
    /\ ImageEditing
    /\ \E p \in VideoPrompts : p # ig.prompt /\ ig' = [ig EXCEPT !.prompt = p]
    /\ UNCHANGED <<retryVars, op, request, videoVars, apiKey, reply, taskVars, compVars>>

\* onChange of the persona selector, rendered when customModels is not empty
ImageSetSelectedModelId ==
    /\ ImageEditing
    /\ Len(ig.customModels) > 0
    /\ \E id \in {""} \cup ModelIds(ig.customModels) :
          id # ig.selectedModelId /\ ig' = [ig EXCEPT !.selectedModelId = id]
    /\ UNCHANGED <<retryVars, op, request, videoVars, apiKey, reply, taskVars, compVars>>

\* onClick of an aspect ratio button
ImageSetAspectRatio ==
    /\ ImageEditing
    /\ \E a \in {"1:1", "16:9"} : a # ig.aspectRatio /\ ig' = [ig EXCEPT !.aspectRatio = a]
    /\ UNCHANGED <<retryVars, op, request, videoVars, apiKey, reply, taskVars, compVars>>

\* onChange of the high quality checkbox
ImageSetHighQuality ==
    /\ ImageEditing
    /\ ig' = [ig EXCEPT !.highQuality = ~@]
    /\ UNCHANGED <<retryVars, op, request, videoVars, apiKey, reply, taskVars, compVars>>

\* handleGenerate up to await generateImage(finalPrompt, aspectRatio,
\* highQuality); the button is disabled while loading or without a prompt
ImageHandleGenerate ==
    /\ ImageEditing
    /\ ig.prompt # <<>>
    /\ ig' = [ig EXCEPT !.loading = TRUE, !.result = <<>>, !.pc = "awaiting"]
    /\ op' = [name |-> "generateImage", prompt |-> ComposeImage(ig),
              aspectRatio |-> ig.aspectRatio, highQuality |-> ig.highQuality]
    /\ WithRetryEnter
    /\ UNCHANGED <<request, videoVars, apiKey, reply, taskVars, compVars>>

\* handleGenerate after await generateImage(...): the result and the history
\* entry on success, the alert on failure, and finally setLoading(false)
ImageHandleGenerateResumes ==
    /\ ig.pc = "awaiting"
    /\ rpc = "done"
    /\ IF outcome.state = "resolved"
       THEN ig' = [ig EXCEPT !.loading = FALSE, !.pc = "returned",
                             !.result = outcome.value,
                             !.history = << [type |-> "image", url |-> outcome.value,
                                             prompt |-> ig.prompt] >> \o @]
       ELSE ig' = [ig EXCEPT !.loading = FALSE, !.pc = "returned", !.alerts = @ + 1]
    /\ UNCHANGED <<retryVars, op, request, videoVars, apiKey, reply, taskVars, compVars>>

ImageGenNext ==
    \/ ImageModelsLoaded
    \/ ImageSetPrompt
    \/ ImageSetSelectedModelId
    \/ ImageSetAspectRatio
    \/ ImageSetHighQuality
    \/ ImageHandleGenerate
    \/ ImageCallAnswered
    \/ ImageCallFails
    \/ ImageRetry
    \/ ImageHandleGenerateResumes

SpecImageGen == ImageGenInit /\ [][ImageGenNext]_vars

(***************************************************************************)
(* JSON.parse                                                              *)
(***************************************************************************)
\* parsed values: [t |-> "arr", v |-> elements], [t |-> "obj", v |-> members
\* as [k, v] records], [t |-> "str", v |-> characters], [t |-> "num", v |->
\* characters], [t |-> "lit", v |-> "true" | "false" | "null"]
WhiteSpace == {" ", "\n", "\t", "\r"}
Digits == {"0", "1", "2", "3", "4", "5", "6", "7", "8", "9"}

SyntaxError == [ok |-> FALSE]
Parsed(value, rest) == [ok |-> TRUE, value |-> value, rest |-> rest]

JsonString(characters) == [t |-> "str", v |-> characters]
JsonArray(elements) == [t |-> "arr", v |-> elements]

RECURSIVE SkipWhiteSpace(_)
SkipWhiteSpace(s) ==
    IF s # <<>> /\ Head(s) \in WhiteSpace THEN SkipWhiteSpace(Tail(s)) ELSE s

\* s begins with the characters of word
StartsWith(s, word) ==
    Len(s) >= Len(word) /\ SubSeq(s, 1, Len(word)) = word

\* s without its first n characters
Drop(s, n) == SubSeq(s, n + 1, Len(s))

RECURSIVE ParseString(_, _)
\* the characters of a string after its opening quote, up to the closing one
ParseString(s, acc) ==
    IF s = <<>> THEN SyntaxError
    ELSE IF Head(s) = "\"" THEN Parsed(JsonString(acc), Tail(s))
    ELSE IF Head(s) = "\\"
    THEN IF Len(s) >= 2 /\ s[2] \in {"\"", "\\", "/"}
         THEN ParseString(Drop(s, 2), Append(acc, s[2]))
         ELSE IF Len(s) >= 2 /\ s[2] = "n"
         THEN ParseString(Drop(s, 2), Append(acc, "\n"))
         ELSE SyntaxError
    ELSE IF Head(s) \in {"\n", "\t", "\r"} THEN SyntaxError
    ELSE ParseString(Tail(s), Append(acc, Head(s)))

RECURSIVE ParseDigits(_, _)
ParseDigits(s, acc) ==
    IF s # <<>> /\ Head(s) \in Digits
    THEN ParseDigits(Tail(s), Append(acc, Head(s)))
    ELSE Parsed([t |-> "num", v |-> acc], s)

\* an integer: an optional minus, then 0 or a digit other than 0 and more
\* digits (the replies explored hold no fraction and no exponent)
ParseNumber(s) ==
    LET minus == s # <<>> /\ Head(s) = "-"
        r == IF minus THEN Tail(s) ELSE s
        sign == IF minus THEN <<"-">> ELSE <<>>
    IN  IF r = <<>> \/ Head(r) \notin Digits THEN SyntaxError
        ELSE IF Head(r) = "0" THEN Parsed([t |-> "num", v |-> sign \o <<"0">>], Tail(r))
        ELSE ParseDigits(r, sign)

RECURSIVE ParseValue(_)
RECURSIVE ParseElements(_, _)
RECURSIVE ParseMembers(_, _)

ParseValue(text) ==
    LET s == SkipWhiteSpace(text)
    IN  IF s = <<>> THEN SyntaxError
        ELSE IF Head(s) = "["
        THEN LET r == SkipWhiteSpace(Tail(s))
             IN  IF r # <<>> /\ Head(r) = "]"
                 THEN Parsed(JsonArray(<<>>), Tail(r))
                 ELSE ParseElements(r, <<>>)
        ELSE IF Head(s) = "{"
        THEN LET r == SkipWhiteSpace(Tail(s))
             IN  IF r # <<>> /\ Head(r) = "}"
                 THEN Parsed([t |-> "obj", v |-> <<>>], Tail(r))
                 ELSE ParseMembers(r, <<>>)
        ELSE IF Head(s) = "\"" THEN ParseString(Tail(s), <<>>)
        ELSE IF Head(s) \in Digits \cup {"-"} THEN ParseNumber(s)
        ELSE IF StartsWith(s, <<"t","r","u","e">>)
        THEN Parsed([t |-> "lit", v |-> "true"], Drop(s, 4))
        ELSE IF StartsWith(s, <<"f","a","l","s","e">>)
        THEN Parsed([t |-> "lit", v |-> "false"], Drop(s, 5))
        ELSE IF StartsWith(s, <<"n","u","l","l">>)
        THEN Parsed([t |-> "lit", v |-> "null"], Drop(s, 4))
        ELSE SyntaxError

\* the elements of an array after "[" or ",", up to "]"
ParseElements(s, acc) ==
    LET e == ParseValue(s)
    IN  IF ~e.ok THEN SyntaxError
        ELSE LET r == SkipWhiteSpace(e.rest)
             IN  IF r = <<>> THEN SyntaxError
                 ELSE IF Head(r) = "," THEN ParseElements(Tail(r), Append(acc, e.value))
                 ELSE IF Head(r) = "]" THEN Parsed(JsonArray(Append(acc, e.value)), Tail(r))
                 ELSE SyntaxError

\* the members of an object after "{" or ",", up to "}"
ParseMembers(text, acc) ==
    LET s == SkipWhiteSpace(text)
    IN  IF s = <<>> \/ Head(s) # "\"" THEN SyntaxError
        ELSE LET k == ParseString(Tail(s), <<>>)
             IN  IF ~k.ok THEN SyntaxError
                 ELSE LET c == SkipWhiteSpace(k.rest)
                      IN  IF c = <<>> \/ Head(c) # ":" THEN SyntaxError
                          ELSE LET e == ParseValue(Tail(c))
                               IN  IF ~e.ok THEN SyntaxError
                                   ELSE LET r == SkipWhiteSpace(e.rest)
                                            members == Append(acc, [k |-> k.value.v, v |-> e.value])
                                        IN  IF r = <<>> THEN SyntaxError
                                            ELSE IF Head(r) = "," THEN ParseMembers(Tail(r), members)
                                            ELSE IF Head(r) = "}"
                                            THEN Parsed([t |-> "obj", v |-> members], Tail(r))
                                            ELSE SyntaxError

\* JSON.parse(text): one value with nothing but white space after it, or a
\* SyntaxError
JSONParse(text) ==
    LET r == ParseValue(text)
    IN  IF r.ok /\ SkipWhiteSpace(r.rest) = <<>>
        THEN [ok |-> TRUE, value |-> r.value]
        ELSE SyntaxError

(***************************************************************************)
(* generateStoryboardPlan                                                  *)
(***************************************************************************)
StoryboardPlanFor == <<"C","r","e","a","t","e"," ","a"," ","4","-","p","a","n","e","l"," ","s","t","o","r","y","b","o","a","r","d"," ","p","l","a","n"," ","f","o","r"," ","t","h","e"," ","f","o","l","l","o","w","i","n","g"," ","s","t","o","r","y",":"," ","\"">>
ReturnOnlyJson == <<"\"","."," ","\n"," "," "," "," "," "," ","R","e","t","u","r","n"," ","O","N","L","Y"," ","a"," ","J","S","O","N"," ","a","r","r","a","y"," ","o","f"," ","s","t","r","i","n","g","s",","," ","w","h","e","r","e"," ","e","a","c","h"," ","s","t","r","i","n","g"," ","d","e","s","c","r","i","b","e","s"," ","o","n","e"," ","p","a","n","e","l"," ","v","i","s","u","a","l","l","y",".">>
MsgUnexpectedToken == <<"U","n","e","x","p","e","c","t","e","d"," ","t","o","k","e","n">>

StoryPrompts == { <<"a"," ","d","u","e","l"," ","a","t"," ","d","a","w","n">> }

\* texts of provider replies that are JSON
JsonTexts ==
    { <<"[","\"","D","a","w","n","\"",",","\"","D","u","e","l","\"","]">>,
      <<"["," ","\"","D","a","w","n","\""," ",",","\n"," ","\"","D","u","e","l","\""," ","]">>,
      <<"[","]">>,
      <<"{","\"","p","l","a","n","\"",":","[","1",",","t","r","u","e","]","}">>,
      <<"\"","D","a","w","n","\"">> }

\* texts of provider replies that are not JSON
NonJsonTexts ==
    { <<"S","u","r","e","!"," ","[","\"","D","a","w","n","\"","]">>,
      <<"j","s","o","n","\n","[","\"","D","a","w","n","\"","]","\n">>,
      <<"[","\"","D","a","w","n","\"",",">>,
      <<"[","'","D","a","w","n","'","]">>,
      <<"[","\"","D","a","w","n","\"","]"," ","o","k">>,
      <<"[","\"","D","a","w","n","\""," ","\"","D","u","e","l","\"","]">>,
      <<" ">> }

\* response.text of a successful call: a text, or none (undefined and the
\* empty string are the empty sequence)
StoryReplies == JsonTexts \cup NonJsonTexts \cup { <<>> }

\* ["Scene 1", "Scene 2", "Scene 3", "Scene 4"]
ScenePlaceholders ==
    JsonArray(<< JsonString(<<"S","c","e","n","e"," ","1">>), JsonString(<<"S","c","e","n","e"," ","2">>),
                 JsonString(<<"S","c","e","n","e"," ","3">>), JsonString(<<"S","c","e","n","e"," ","4">>) >>)

\* the argument of ai.models.generateContent in generateStoryboardPlan
StoryboardRequest(o) ==
    [api |-> "generateContent",
     model |-> "gemini-2.5-flash",
     contents |-> StoryboardPlanFor \o o.prompt \o ReturnOnlyJson,
     config |-> [responseMimeType |-> "application/json",
                 responseSchema |-> [type |-> "ARRAY", items |-> [type |-> "STRING"]]]]

\* text || "[]"
TextOrEmptyArray(text) == IF text # <<>> THEN text ELSE <<"[", "]">>

\* the function passed to withRetry without its try/catch
StoryFnResultUncaught(text) ==
    LET parsed == JSONParse(TextOrEmptyArray(text))
    IN  IF parsed.ok THEN Ok(parsed.value)
        ELSE Throw([message |-> MsgUnexpectedToken])

\* the result of the function passed to withRetry, given response.text:
\* try { return JSON.parse(text || "[]") } catch { return the placeholders }
StoryFnResult(text) ==
    LET parsed == JSONParse(TextOrEmptyArray(text))
    IN  IF parsed.ok THEN Ok(parsed.value)
        ELSE Ok(ScenePlaceholders)

StoryInit ==
    /\ rpc = "idle"
    /\ retries = MAX_RETRIES
    /\ delay = Ms(RETRY_DELAY_MS)
    /\ calls = 0
    /\ waits = <<>>
    /\ first = NoResult
    /\ last = NoResult
    /\ outcome = Pending
    /\ op = [name |-> "none"]
    /\ request = NoRequest
    /\ vg = [mounted |-> FALSE]
    /\ gv = [pc |-> "idle"]
    /\ ig = [mounted |-> FALSE]
    /\ apiKey = "key-A"
    /\ reply = NoReply
    /\ Unused

\* generateStoryboardPlan(prompt) is called
GenerateStoryboardPlan ==
    /\ rpc = "idle"
    /\ \E prompt \in StoryPrompts : op' = [name |-> "generateStoryboardPlan", prompt |-> prompt]
    /\ WithRetryEnter
    /\ UNCHANGED <<request, videoVars, ig, apiKey, reply, taskVars, compVars>>

\* one invocation of the function passed to withRetry: the request is sent,
\* the provider answers and the text is parsed
StoryCallAnswered ==
    /\ op.name = "generateStoryboardPlan"
    /\ request' = StoryboardRequest(op)
    /\ \E text \in StoryReplies :
          /\ reply' = [received |-> TRUE, attempt |-> calls + 1, text |-> text]
          /\ WithRetryAttempt(StoryFnResult(text))
    /\ UNCHANGED <<op, videoVars, ig, apiKey, taskVars, compVars>>

\* one invocation of the function passed to withRetry: the provider call throws
StoryCallFails ==
    /\ op.name = "generateStoryboardPlan"
    /\ request' = StoryboardRequest(op)
    /\ \E e \in ScenarioErrors : WithRetryAttempt(Throw(e))
    /\ UNCHANGED <<op, videoVars, ig, apiKey, reply, taskVars, compVars>>

StoryRetry ==
    /\ op.name = "generateStoryboardPlan"
    /\ WithRetryResume
    /\ UNCHANGED <<op, request, videoVars, ig, apiKey, reply, taskVars, compVars>>

StoryNext == GenerateStoryboardPlan \/ StoryCallAnswered \/ StoryCallFails \/ StoryRetry

SpecStory == StoryInit /\ [][StoryNext]_vars

(***************************************************************************)
(* analyzeMedia, chatWithCustomModel, optimizeSystemInstruction,           *)
(* analyzeCharacterReferences                                              *)
(***************************************************************************)
DescribeThisMedia == <<"D","e","s","c","r","i","b","e"," ","t","h","i","s"," ","m","e","d","i","a"," ","i","n"," ","d","e","t","a","i","l",".">>
NoAnalysisAvailable == <<"N","o"," ","a","n","a","l","y","s","i","s"," ","a","v","a","i","l","a","b","l","e",".">>
OptimizeThis == <<"Optimize this system instruction for an AI persona to be more distinct, consistent, and effective. Keep the core intent. Return only the new instruction text.\n\nOriginal: \"">>
ConceptArtistTask == <<"You are an expert character concept artist. Your task is to create a 'Visual Consistency Prompt' for this character based on the uploaded reference images.\n  \n  1. ANALYZE the images to find INVARIANT traits (traits present in all images).\n  2. IGNORE background, lighting, and pose (unless they are constant).\n  3. EXTRACT the following details:\n     - Exact Hair style and color (e.g. \"messy platinum blonde bob cut\").\n     - Facial structure and features (e.g. \"sharp cheekbones, cybernetic left eye, scar on chin\").\n     - Distinctive Clothing/Armor (e.g. \"neon orange bomber jacket with dragon patch\").\n     - Art Style/Medium (e.g. \"3D render, octane style\" or \"loose watercolor\").\n  4. OUTPUT a single, dense paragraph of visual descriptors, formatted as an image generation prompt. Do not use conversational language. Focus on physical description.">>
AConsistentCharacter == <<"A"," ","c","h","a","r","a","c","t","e","r"," ","w","i","t","h"," ","c","o","n","s","i","s","t","e","n","t"," ","f","e","a","t","u","r","e","s",".">>

RECURSIVE TrimStart(_)
TrimStart(s) == IF s # <<>> /\ Head(s) \in WhiteSpace THEN TrimStart(Tail(s)) ELSE s

RECURSIVE TrimEnd(_)
TrimEnd(s) ==
    IF s # <<>> /\ s[Len(s)] \in WhiteSpace THEN TrimEnd(SubSeq(s, 1, Len(s) - 1)) ELSE s

\* String.prototype.trim
Trim(s) == TrimEnd(TrimStart(s))

\* inputs of the four functions
MediaPrompts == { <<>>, <<"w","h","o","?">> }
Instructions == { <<"B","e"," ","b","o","l","d">> }
Example1 == [id |-> <<"e","1">>, input |-> <<"H","i">>, output |-> <<"Y","o">>]
Example2 == [id |-> <<"e","2">>, input |-> <<"B","y","e">>, output |-> <<"C","i","a","o">>]
ExampleLists == { <<>>, <<Example1>>, <<Example1, Example2>> }
ChatHistories ==
    { <<>>,
      << [role |-> "user", text |-> <<"h","e","y">>], [role |-> "model", text |-> <<"y","e","s">>] >>,
      << [role |-> "model", text |-> <<"y","e","s">>], [role |-> "user", text |-> <<"h","e","y">>],
         [role |-> "user", text |-> <<"w","h","o","?">>] >> }
ReferenceLists == { <<>>, <<Img1, Img2>> }

\* response.text of a successful call: none or empty, white space, a text
TextReplies == { <<>>, <<" ">>, <<"o","k">>, <<" ","o","k","\n">> }

\* the examples as all their user turns followed by all their model turns
ExampleTurnsByRole(examples) ==
    [i \in 1..Len(examples) |->
        [role |-> "user", parts |-> << [text |-> examples[i].input] >>]]
    \o [i \in 1..Len(examples) |->
        [role |-> "model", parts |-> << [text |-> examples[i].output] >>]]

RECURSIVE ExampleTurns(_)
\* modelConfig.examples.forEach(ex => push user turn, push model turn)
ExampleTurns(examples) ==
    IF examples = <<>> THEN <<>>
    ELSE << [role |-> "user", parts |-> << [text |-> Head(examples).input] >>],
            [role |-> "model", parts |-> << [text |-> Head(examples).output] >>] >>
         \o ExampleTurns(Tail(examples))

\* history.forEach(msg => push { role: msg.role, parts: [{ text: msg.text }] })
HistoryTurns(history) ==
    [i \in 1..Len(history) |->
        [role |-> history[i].role, parts |-> << [text |-> history[i].text] >>]]

\* what the function passed to withRetry sends to the provider
TextRequest(o) ==
    IF o.name = "analyzeMedia"
    THEN [api |-> "generateContent",
          model |-> "gemini-2.5-flash",
          contents |-> [parts |->
              << [inlineData |-> [data |-> o.base64Data, mimeType |-> o.mimeType]],
                 [text |-> IF o.prompt # <<>> THEN o.prompt ELSE DescribeThisMedia] >>]]
    ELSE IF o.name = "chatWithCustomModel"
    THEN [api |-> "sendMessage",
          model |-> "gemini-2.5-flash",
          config |-> [systemInstruction |-> o.modelConfig.systemInstruction],
          history |-> ExampleTurns(o.modelConfig.examples) \o HistoryTurns(o.history),
          message |-> o.newMessage]
    ELSE IF o.name = "optimizeSystemInstruction"
    THEN [api |-> "generateContent",
          model |-> "gemini-2.5-flash",
          contents |-> [parts |-> << [text |-> OptimizeThis \o o.instruction \o <<"\"">>] >>]]
    ELSE [api |-> "generateContent",
          model |-> "gemini-2.5-flash",
          contents |-> [parts |->
              [i \in 1..Len(o.base64Images) |->
                  [inlineData |-> [mimeType |-> "image/png", data |-> o.base64Images[i]]]]
              \o << [text |-> ConceptArtistTask] >>]]

\* what the function passed to withRetry returns, given response.text
TextFnResult(o, text) ==
    IF o.name = "analyzeMedia"
    THEN Ok(IF text # <<>> THEN text ELSE NoAnalysisAvailable)
    ELSE IF o.name = "chatWithCustomModel"
    THEN Ok(text)
    ELSE IF o.name = "optimizeSystemInstruction"
    THEN Ok(IF Trim(text) # <<>> THEN Trim(text) ELSE o.instruction)
    ELSE Ok(IF Trim(text) # <<>> THEN Trim(text) ELSE AConsistentCharacter)

TextFunctions ==
    {"analyzeMedia", "chatWithCustomModel", "optimizeSystemInstruction",
     "analyzeCharacterReferences"}

\* analyzeMedia(base64Data, mimeType, prompt) is called
AnalyzeMedia ==
    /\ rpc = "idle"
    /\ \E base64Data \in Base64Images, mimeType \in MimeTypes, prompt \in MediaPrompts :
          op' = [name |-> "analyzeMedia", base64Data |-> base64Data,
                 mimeType |-> mimeType, prompt |-> prompt]
    /\ WithRetryEnter
    /\ UNCHANGED <<request, videoVars, ig, apiKey, reply, taskVars, compVars>>

\* chatWithCustomModel(modelConfig, history, newMessage) is called
ChatWithCustomModel ==
    /\ rpc = "idle"
    /\ \E systemInstruction \in Instructions, examples \in ExampleLists,
          history \in ChatHistories :
          op' = [name |-> "chatWithCustomModel",
                 modelConfig |-> [systemInstruction |-> systemInstruction,
                                  examples |-> examples],
                 history |-> history, newMessage |-> <<"w","h","o","?">>]
    /\ WithRetryEnter
    /\ UNCHANGED <<request, videoVars, ig, apiKey, reply, taskVars, compVars>>

\* optimizeSystemInstruction(instruction) is called
OptimizeSystemInstruction ==
    /\ rpc = "idle"
    /\ \E instruction \in Instructions :
          op' = [name |-> "optimizeSystemInstruction", instruction |-> instruction]
    /\ WithRetryEnter
    /\ UNCHANGED <<request, videoVars, ig, apiKey, reply, taskVars, compVars>>

\* analyzeCharacterReferences(base64Images) is called
AnalyzeCharacterReferences ==
    /\ rpc = "idle"
    /\ \E base64Images \in ReferenceLists :
          op' = [name |-> "analyzeCharacterReferences", base64Images |-> base64Images]
    /\ WithRetryEnter
    /\ UNCHANGED <<request, videoVars, ig, apiKey, reply, taskVars, compVars>>

\* one invocation of the function passed to withRetry: the request is sent
\* and the provider answers
TextCallAnswered ==
    /\ op.name \in TextFunctions
    /\ request' = TextRequest(op)
    /\ \E text \in TextReplies :
          /\ reply' = [received |-> TRUE, attempt |-> calls + 1, text |-> text]
          /\ WithRetryAttempt(TextFnResult(op, text))
    /\ UNCHANGED <<op, videoVars, ig, apiKey, taskVars, compVars>>

\* one invocation of the function passed to withRetry: the provider call throws
TextCallFails ==
    /\ op.name \in TextFunctions
    /\ request' = TextRequest(op)
    /\ \E e \in ScenarioErrors : WithRetryAttempt(Throw(e))
    /\ UNCHANGED <<op, videoVars, ig, apiKey, reply, taskVars, compVars>>

TextRetry ==
    /\ op.name \in TextFunctions
    /\ WithRetryResume
    /\ UNCHANGED <<op, request, videoVars, ig, apiKey, reply, taskVars, compVars>>

(***************************************************************************)
(* autoTrainCharacter                                                      *)
(***************************************************************************)
CreatePersonaFor == <<"Create a detailed character persona for \"">>
PersonaColon == <<"\"",":"," ">>
PersonaDot == <<"."," ">>
VisualsColon == <<"V","i","s","u","a","l","s",":"," ">>
OutputJsonWith == <<"\n    Output JSON with:\n    - systemInstruction: A detailed instruction describing the character's personality, backstory, and voice.\n    - consistencyContext: A dense image generation prompt describing the character's visual appearance. Format: [Subject Description, Face, Hair] + [Outfit, Accessories] + [Art Style]. Do not include generic poses.\n    - examples: array of 3 dialogue examples.">>
MsgNotAFunction == <<"(","j","s","o","n",".","e","x","a","m","p","l","e","s"," ","|","|"," ","[","]",")",".","m","a","p"," ","i","s"," ","n","o","t"," ","a"," ","f","u","n","c","t","i","o","n">>
MsgReadOfNull == <<"C","a","n","n","o","t"," ","r","e","a","d"," ","p","r","o","p","e","r","t","i","e","s"," ","o","f"," ","n","u","l","l">>

\* texts of provider replies that are JSON
TrainJsonTexts ==
    { <<"{","\"","s","y","s","t","e","m","I","n","s","t","r","u","c","t","i","o","n","\"",":","\"","B","e"," ","b","o","l","d","\"",",","\"","c","o","n","s","i","s","t","e","n","c","y","C","o","n","t","e","x","t","\"",":","\"","r","e","d"," ","h","a","i","r","\"",",","\"","e","x","a","m","p","l","e","s","\"",":","[","{","\"","i","n","p","u","t","\"",":","\"","H","i","\"",",","\"","o","u","t","p","u","t","\"",":","\"","Y","o","\"","}",",","{","\"","i","n","p","u","t","\"",":","\"","B","y","e","\"","}","]","}">>,
      <<"{","\"","s","y","s","t","e","m","I","n","s","t","r","u","c","t","i","o","n","\"",":","\"","B","e"," ","b","o","l","d","\"","}">>,
      <<"{","\"","e","x","a","m","p","l","e","s","\"",":","\"","n","o","n","e","\"","}">>,
      <<"{","\"","e","x","a","m","p","l","e","s","\"",":","[","n","u","l","l","]","}">>,
      <<"[","\"","D","a","w","n","\"","]">>,
      <<"n","u","l","l">> }

\* texts of provider replies that are not JSON
TrainNonJsonTexts ==
    { <<"S","u","r","e","!"," ","{","\"","s","y","s","t","e","m","I","n","s","t","r","u","c","t","i","o","n","\"",":","\"","B","e"," ","b","o","l","d","\"","}">>,
      <<"{","\"","s","y","s","t","e","m","I","n","s","t","r","u","c","t","i","o","n","\"",":","\"","B","e"," ","b","o","l","d","\"",",">> }

TrainReplies == TrainJsonTexts \cup TrainNonJsonTexts \cup { <<>> }

\* the value of a property that is not there
Undefined == [t |-> "undef", v |-> <<>>]

\* value.key of a parsed value other than null
Member(value, key) ==
    IF value.t = "obj" /\ \E i \in 1..Len(value.v) : value.v[i].k = key
    THEN LET i == CHOOSE j \in 1..Len(value.v) :
                     /\ value.v[j].k = key
                     /\ \A l \in (j + 1)..Len(value.v) : value.v[l].k # key
         IN  value.v[i].v
    ELSE Undefined

\* the value counts as false in `value || other`
Falsy(value) ==
    \/ value.t = "undef"
    \/ value.t = "lit" /\ value.v \in {"false", "null"}
    \/ value.t = "str" /\ value.v = <<>>
    \/ value.t = "num" /\ value.v \in {<<"0">>, <<"-", "0">>}

\* value || ""
OrEmptyString(value) == IF Falsy(value) THEN JsonString(<<>>) ELSE value

\* `${Date.now()}-${i}`
ExampleId(clock, i) == <<ToString(clock), "-", ToString(i)>>

\* the argument of ai.models.generateContent in autoTrainCharacter
TrainRequest(o) ==
    [api |-> "generateContent",
     model |-> "gemini-2.5-flash",
     contents |-> [parts |->
         << [text |-> CreatePersonaFor \o o.name_ \o PersonaColon \o o.description \o PersonaDot
                        \o (IF o.visualSeed # <<>> THEN VisualsColon \o o.visualSeed ELSE <<>>)
                        \o OutputJsonWith] >>],
     config |-> [responseMimeType |-> "application/json",
                 responseSchema |->
                    [type |-> "OBJECT",
                     properties |->
                        [systemInstruction |-> [type |-> "STRING"],
                         consistencyContext |-> [type |-> "STRING"],
                         examples |->
                            [type |-> "ARRAY",
                             items |-> [type |-> "OBJECT",
                                        properties |-> [input |-> [type |-> "STRING"],
                                                        output |-> [type |-> "STRING"]]]]]]]]

\* the result of the function passed to withRetry, given response.text and
\* the value of Date.now(): JSON.parse(response.text || "{}"), the examples
\* with their ids, the profile; a SyntaxError or a TypeError is thrown
TrainFnResult(text, clock) ==
    LET parsed == JSONParse(IF text # <<>> THEN text ELSE <<"{", "}">>)
    IN  IF ~parsed.ok THEN Throw([message |-> MsgUnexpectedToken])
        ELSE LET json == parsed.value
             IN  IF json.t = "lit" /\ json.v = "null"
                 THEN Throw([message |-> MsgReadOfNull])
                 ELSE LET given == Member(json, <<"e","x","a","m","p","l","e","s">>)
                          list == IF Falsy(given) THEN JsonArray(<<>>) ELSE given
                      IN  IF list.t # "arr"
                          THEN Throw([message |-> MsgNotAFunction])
                          ELSE IF \E i \in 1..Len(list.v) :
                                     list.v[i].t = "lit" /\ list.v[i].v = "null"
                          THEN Throw([message |-> MsgReadOfNull])
                          ELSE Ok([systemInstruction |->
                                      OrEmptyString(Member(json, <<"s","y","s","t","e","m","I","n","s","t","r","u","c","t","i","o","n">>)),
                                   consistencyContext |->
                                      OrEmptyString(Member(json, <<"c","o","n","s","i","s","t","e","n","c","y","C","o","n","t","e","x","t">>)),
                                   examples |->
                                      [i \in 1..Len(list.v) |->
                                          [id |-> ExampleId(clock, i - 1),
                                           input |-> OrEmptyString(Member(list.v[i], <<"i","n","p","u","t">>)),
                                           output |-> OrEmptyString(Member(list.v[i], <<"o","u","t","p","u","t">>))]]])

\* autoTrainCharacter(name, description, visualSeed) is called
AutoTrainCharacter ==
    /\ rpc = "idle"
    /\ \E visualSeed \in { <<>>, DescLong } :
          op' = [name |-> "autoTrainCharacter", name_ |-> <<"M","i","a">>,
                 description |-> <<"a"," ","p","i","l","o","t">>, visualSeed |-> visualSeed]
    /\ WithRetryEnter
    /\ UNCHANGED <<request, videoVars, ig, apiKey, reply, taskVars, compVars>>

\* one invocation of the function passed to withRetry: the request is sent,
\* the provider answers and the profile is assembled
TrainCallAnswered ==
    /\ op.name = "autoTrainCharacter"
    /\ request' = TrainRequest(op)
    /\ \E text \in TrainReplies :
          /\ reply' = [received |-> TRUE, attempt |-> calls + 1, text |-> text]
          /\ WithRetryAttempt(TrainFnResult(text, now))
    /\ UNCHANGED <<op, videoVars, ig, apiKey, taskVars, compVars>>

\* one invocation of the function passed to withRetry: the provider call throws
TrainCallFails ==
    /\ op.name = "autoTrainCharacter"
    /\ request' = TrainRequest(op)
    /\ \E e \in ScenarioErrors : WithRetryAttempt(Throw(e))
    /\ UNCHANGED <<op, videoVars, ig, apiKey, reply, taskVars, compVars>>

TrainRetry ==
    /\ op.name = "autoTrainCharacter"
    /\ WithRetryResume
    /\ UNCHANGED <<op, request, videoVars, ig, apiKey, reply, taskVars, compVars>>

(***************************************************************************)
(* The facade: one call of any of its nine operations                      *)
(***************************************************************************)
ReferenceImageLists == { <<>>, <<Img1>>, <<Img1, Img2, Img1, Img2>> }

FacadeInit == StoryInit

\* generateVideo(prompt, resolution, aspectRatio, referenceImages, startImage)
\* is called
CallGenerateVideo ==
    /\ rpc = "idle"
    /\ gv.pc = "idle"
    /\ \E prompt \in VideoPrompts, resolution \in VideoResolution,
          aspectRatio \in VideoAspectRatios, referenceImages \in ReferenceImageLists,
          startImage \in { <<>>, Img1 } :
          GenerateVideo(prompt, resolution, aspectRatio, referenceImages, startImage)
    /\ UNCHANGED vg

FacadeNext ==
    \/ GenerateImage
    \/ EditImage
    \/ ImageCallAnswered
    \/ ImageCallFails
    \/ ImageRetry
    \/ CallGenerateVideo
    \/ VideoSubmitAnswered
    \/ VideoSubmitFails
    \/ VideoPollAnswered
    \/ VideoPollFails
    \/ VideoRetry
    \/ VideoAwaitResumes
    \/ VideoClockAdvances
    \/ VideoPollTimer
    \/ VideoFetchAnswered
    \/ VideoFetchFails
    \/ GenerateStoryboardPlan
    \/ StoryCallAnswered
    \/ StoryCallFails
    \/ StoryRetry
    \/ AnalyzeMedia
    \/ ChatWithCustomModel
    \/ OptimizeSystemInstruction
    \/ AnalyzeCharacterReferences
    \/ TextCallAnswered
    \/ TextCallFails
    \/ TextRetry
    \/ AutoTrainCharacter
    \/ TrainCallAnswered
    \/ TrainCallFails
    \/ TrainRetry

SpecFacade == FacadeInit /\ [][FacadeNext]_vars

(***************************************************************************)
(* withRetry activations running side by side                              *)
(***************************************************************************)
\* each call of a facade operation runs its own withRetry: retries and delay
\* are parameters of that activation
TaskEnter(call) ==
    call @@
    [rpc |-> "call", retries |-> MAX_RETRIES, delay |-> Ms(RETRY_DELAY_MS),
     calls |-> 0, waits |-> <<>>, last |-> NoResult, outcome |-> Pending]

RECURSIVE SumOfWaits(_)
SumOfWaits(ts) == IF ts = <<>> THEN 0 ELSE Len(Head(ts).waits) + SumOfWaits(Tail(ts))

\* one retry budget for all the calls in flight
TaskRetriesShared(ts, i) ==
    IF SumOfWaits(ts) < MAX_RETRIES THEN MAX_RETRIES - SumOfWaits(ts) ELSE 0

\* the retries left to call i: the parameter of its own activation
TaskRetries(ts, i) == ts[i].retries

\* try { return await fn() } catch (error) { ... } in the activation t
TaskAttempt(t, result, retriesLeft) ==
    LET this == [attempt |-> t.calls + 1, result |-> result]
    IN  IF result.ok
        THEN [t EXCEPT !.rpc = "done", !.calls = @ + 1, !.last = this,
                       !.outcome = [state |-> "resolved", value |-> result.value]]
        ELSE IF IsRetryable(result.error, retriesLeft)
        THEN [t EXCEPT !.rpc = "wait", !.calls = @ + 1, !.last = this,
                       !.waits = Append(@, t.delay)]
        ELSE [t EXCEPT !.rpc = "done", !.calls = @ + 1, !.last = this,
                       !.outcome = [state |-> "rejected", thrown |-> this]]

\* the timer fires: return withRetry(fn, retries - 1, nextDelay)
TaskResume(t) ==
    [t EXCEPT !.rpc = "call", !.retries = @ - 1, !.delay = NextDelay(@)]

(***************************************************************************)
(* Storyboard                                                              *)
(***************************************************************************)
MaxTasks == 2
MaxPlans == 1

\* texts of the provider replies to the plan request of the Storyboard
PlanTexts ==
    { <<"[","\"","D","a","w","n","\"",",","\"","D","u","e","l","\"","]">>,
      <<"[","\"","D","u","s","k","\"","]">>,
      <<"[","]">>,
      <<"{","\"","p","l","a","n","\"",":","[","1",",","t","r","u","e","]","}">> }

StoryboardPanel == <<"S","t","o","r","y","b","o","a","r","d"," ","p","a","n","e","l",","," ","c","i","n","e","m","a","t","i","c"," ","s","k","e","t","c","h"," ","s","t","y","l","e",":"," ">>
DotContext == <<"."," ","C","o","n","t","e","x","t",":"," ">>

\* provider replies to the image request of a panel
PanelImageReplies ==
    { [candidates |-> << [content |-> [parts |-> << [inlineData |-> [data |-> Img1]] >>]] >>],
      [candidates |-> <<>>] }

\* the op record of the generateImage call of a panel
PanelImageOp(prompt) ==
    [name |-> "generateImage", prompt |-> prompt, aspectRatio |-> "16:9",
     highQuality |-> FALSE]

\* `Storyboard panel, cinematic sketch style: ${panel.description}. Context: ${storyPrompt}`
PanelPrompt(panel, storyPrompt) ==
    StoryboardPanel \o panel.description.v \o DotContext \o storyPrompt

\* descriptions.map((desc, index) => ({ id: `panel-${index}`, description: desc,
\* isLoading: false }))
NewPanels(descriptions) ==
    [i \in 1..Len(descriptions) |->
        [id |-> <<"panel-", ToString(i - 1)>>, description |-> descriptions[i],
         isLoading |-> FALSE, imageUrl |-> <<>>]]

RECURSIVE StartOrder(_, _)
\* the panels generatePanelImage goes on with, in the order of the calls:
\* those not loading in the panels of the render
StartOrder(panels, indexes) ==
    IF indexes = <<>> THEN <<>>
    ELSE (IF panels[Head(indexes)].isLoading THEN <<>> ELSE <<Head(indexes)>>)
            \o StartOrder(panels, Tail(indexes))

\* generatePanelImage called for the indexes given within one render: each
\* call copies the panels of the render, marks its own panel and calls
\* setPanels (the last call's copy stays), then starts its image request
StartPanelImages(started) ==
    LET latest == started[Len(started)]
    IN  /\ sb' = [sb EXCEPT !.panels = [sb.panels EXCEPT ![latest].isLoading = TRUE]]
        /\ tasks' = tasks \o [k \in 1..Len(started) |->
                                 TaskEnter([index |-> started[k], plan |-> sb.plans,
                                            prompt |-> PanelPrompt(sb.panels[started[k]],
                                                                   sb.storyPrompt)])]

StoryboardInit ==
    /\ rpc = "idle"
    /\ retries = MAX_RETRIES
    /\ delay = Ms(RETRY_DELAY_MS)
    /\ calls = 0
    /\ waits = <<>>
    /\ first = NoResult
    /\ last = NoResult
    /\ outcome = Pending
    /\ op = [name |-> "none"]
    /\ request = NoRequest
    /\ vg = [mounted |-> FALSE]
    /\ gv = [pc |-> "idle"]
    /\ ig = [mounted |-> FALSE]
    /\ apiKey = "key-A"
    /\ reply = NoReply
    /\ tasks = <<>>
    /\ now = 0
    /\ mt = [mounted |-> FALSE]
    /\ NoViews
    /\ sb = [mounted |-> TRUE, storyPrompt |-> <<>>, panels |-> <<>>,
             isPlanning |-> FALSE, plans |-> 0, alerts |-> 0]

\* onChange of the story input
SetStoryPrompt ==
    /\ sb.mounted
    /\ sb.storyPrompt = <<>>
    /\ \E p \in StoryPrompts : sb' = [sb EXCEPT !.storyPrompt = p]
    /\ UNCHANGED <<retryVars, op, request, videoVars, ig, apiKey, reply, tasks, now, mt, viewVars>>

\* handleCreatePlan up to await generateStoryboardPlan(storyPrompt); the
\* button is disabled while planning or without a story prompt
HandleCreatePlanUpTo(maxPlans) ==
    /\ sb.mounted
    /\ ~sb.isPlanning
    /\ sb.storyPrompt # <<>>
    /\ sb.plans < maxPlans
    /\ rpc = "idle"
    /\ sb' = [sb EXCEPT !.isPlanning = TRUE, !.panels = <<>>, !.plans = @ + 1]
    /\ op' = [name |-> "generateStoryboardPlan", prompt |-> sb.storyPrompt]
    /\ WithRetryEnter
    /\ UNCHANGED <<request, videoVars, ig, apiKey, reply, tasks, now, mt, viewVars>>

HandleCreatePlan == HandleCreatePlanUpTo(MaxPlans)

\* handleCreatePlan after await generateStoryboardPlan(...): the panels of
\* the plan, or the alert when the call rejected or the value has no map;
\* finally setIsPlanning(false). The withRetry activation is over.
HandleCreatePlanResumes ==
    /\ sb.isPlanning
    /\ op.name = "generateStoryboardPlan"
    /\ rpc = "done"
    /\ IF outcome.state = "resolved" /\ outcome.value.t = "arr"
       THEN sb' = [sb EXCEPT !.isPlanning = FALSE, !.panels = NewPanels(outcome.value.v)]
       ELSE sb' = [sb EXCEPT !.isPlanning = FALSE, !.alerts = @ + 1]
    /\ rpc' = "idle"
    /\ retries' = MAX_RETRIES
    /\ delay' = Ms(RETRY_DELAY_MS)
    /\ calls' = 0
    /\ waits' = <<>>
    /\ first' = NoResult
    /\ last' = NoResult
    /\ outcome' = Pending
    /\ reply' = NoReply
    /\ UNCHANGED <<op, request, videoVars, ig, apiKey, tasks, now, mt, viewVars>>

\* the invocation of the function generateStoryboardPlan passes to withRetry,
\* answered by the provider
PlanCallAnswered ==
    /\ sb.isPlanning
    /\ op.name = "generateStoryboardPlan"
    /\ request' = StoryboardRequest(op)
    /\ \E text \in PlanTexts :
          /\ reply' = [received |-> TRUE, attempt |-> calls + 1, text |-> text]
          /\ WithRetryAttempt(StoryFnResult(text))
    /\ UNCHANGED <<op, videoVars, ig, apiKey, taskVars, compVars>>

\* onClick of a panel's Generate Image / Regenerate button, shown when the
\* panel is not loading: generatePanelImage(index) up to await generateImage
GeneratePanelImageUpTo(maxTasks) ==
    /\ sb.mounted
    /\ Len(tasks) < maxTasks
    /\ \E index \in 1..Len(sb.panels) :
          /\ ~sb.panels[index].isLoading
          /\ StartPanelImages(<<index>>)
    /\ UNCHANGED <<retryVars, op, request, videoVars, ig, apiKey, reply, now, mt, viewVars>>

GeneratePanelImage == GeneratePanelImageUpTo(MaxTasks)

\* onClick of Generate All Images: panels.forEach((_, index) => generatePanelImage(index))
GenerateAll ==
    /\ sb.mounted
    /\ Len(sb.panels) > 0
    /\ LET started == StartOrder(sb.panels, [i \in 1..Len(sb.panels) |-> i])
       IN  /\ started # <<>>
           /\ Len(tasks) + Len(started) <= MaxTasks
           /\ StartPanelImages(started)
    /\ UNCHANGED <<retryVars, op, request, videoVars, ig, apiKey, reply, now, mt, viewVars>>

\* one invocation of the function passed to withRetry by the generateImage
\* call of a panel: the request is sent and the provider answers
PanelImageAnswered ==
    /\ \E i \in 1..Len(tasks) :
          /\ tasks[i].rpc = "call"
          /\ request' = GenerateImageRequest(PanelImageOp(tasks[i].prompt))
          /\ \E response \in PanelImageReplies :
                tasks' = [tasks EXCEPT ![i] =
                            TaskAttempt(@, ImageFnResult(PanelImageOp(tasks[i].prompt), response),
                                        TaskRetries(tasks, i))]
    /\ UNCHANGED <<retryVars, op, videoVars, ig, apiKey, reply, now, compVars>>

\* the same invocation when the provider call throws
PanelImageFails ==
    /\ \E i \in 1..Len(tasks) :
          /\ tasks[i].rpc = "call"
          /\ request' = GenerateImageRequest(PanelImageOp(tasks[i].prompt))
          /\ \E e \in ScenarioErrors :
                tasks' = [tasks EXCEPT ![i] = TaskAttempt(@, Throw(e), TaskRetries(tasks, i))]
    /\ UNCHANGED <<retryVars, op, videoVars, ig, apiKey, reply, now, compVars>>

\* the retry timer of a panel's call fires
PanelImageRetry ==
    /\ \E i \in 1..Len(tasks) :
          /\ tasks[i].rpc = "wait"
          /\ tasks' = [tasks EXCEPT ![i] = TaskResume(@)]
    /\ UNCHANGED <<retryVars, op, request, videoVars, ig, apiKey, reply, now, compVars>>

\* generatePanelImage after await generateImage(...): setPanels(prev =>
\* prev.map((p, i) => i === index ? ... : p)) with the image on success
GeneratePanelImageResumes ==
    /\ \E i \in 1..Len(tasks) :
          /\ tasks[i].rpc = "done"
          /\ LET index == tasks[i].index
             IN  sb' = [sb EXCEPT !.panels =
                    [k \in 1..Len(sb.panels) |->
                        IF k # index THEN sb.panels[k]
                        ELSE IF tasks[i].outcome.state = "resolved"
                        THEN [sb.panels[k] EXCEPT !.imageUrl = tasks[i].outcome.value,
                                                  !.isLoading = FALSE]
                        ELSE [sb.panels[k] EXCEPT !.isLoading = FALSE]]]
          /\ tasks' = [tasks EXCEPT ![i] =
                        [TaskEnter([index |-> @.index, plan |-> @.plan, prompt |-> @.prompt])
                            EXCEPT !.rpc = "returned"]]
    /\ UNCHANGED <<retryVars, op, request, videoVars, ig, apiKey, reply, now, mt, viewVars>>

StoryboardNext ==
    \/ SetStoryPrompt
    \/ HandleCreatePlan
    \/ PlanCallAnswered
    \/ StoryCallFails
    \/ StoryRetry
    \/ HandleCreatePlanResumes
    \/ GeneratePanelImage
    \/ GenerateAll
    \/ PanelImageAnswered
    \/ PanelImageFails
    \/ PanelImageRetry
    \/ GeneratePanelImageResumes

SpecStoryboard == StoryboardInit /\ [][StoryboardNext]_vars

\* the Storyboard with a second plan created while an image request of the
\* first may be in flight
MaxReplans == 2
MaxLateTasks == 1

CreatePlanAgain == HandleCreatePlanUpTo(MaxReplans)

GenerateOnePanelImage == GeneratePanelImageUpTo(MaxLateTasks)

ReplanNext ==
    \/ SetStoryPrompt
    \/ CreatePlanAgain
    \/ PlanCallAnswered
    \/ StoryCallFails
    \/ StoryRetry
    \/ HandleCreatePlanResumes
    \/ GenerateOnePanelImage
    \/ PanelImageAnswered
    \/ PanelImageFails
    \/ PanelImageRetry
    \/ GeneratePanelImageResumes

SpecReplan == StoryboardInit /\ [][ReplanNext]_vars

(***************************************************************************)
(* autoTrainCharacter called more than once, and the clock                 *)
(***************************************************************************)
MaxTrainCalls == 2
MaxClock == 2

\* texts of the provider replies to the calls: a profile with two examples,
\* a profile with one example, a truncated text
TrainTexts ==
    { <<"{","\"","e","x","a","m","p","l","e","s","\"",":","[","{","\"","i","n","p","u","t","\"",":","\"","h","i","\"","}",",","{","\"","i","n","p","u","t","\"",":","\"","y","o","\"","}","]","}">>,
      <<"{","\"","e","x","a","m","p","l","e","s","\"",":","[","{","\"","i","n","p","u","t","\"",":","\"","h","i","\"","}","]","}">>,
      <<"{","\"","e","x","a","m","p","l","e","s","\"",":","[">> }

TrainCallsInit ==
    /\ rpc = "idle"
    /\ retries = MAX_RETRIES
    /\ delay = Ms(RETRY_DELAY_MS)
    /\ calls = 0
    /\ waits = <<>>
    /\ first = NoResult
    /\ last = NoResult
    /\ outcome = Pending
    /\ op = [name |-> "none"]
    /\ request = NoRequest
    /\ vg = [mounted |-> FALSE]
    /\ gv = [pc |-> "idle"]
    /\ ig = [mounted |-> FALSE]
    /\ apiKey = "key-A"
    /\ reply = NoReply
    /\ tasks = <<>>
    /\ now = 0
    /\ sb = [mounted |-> FALSE]
    /\ mt = [mounted |-> FALSE]
    /\ NoViews

\* autoTrainCharacter(name, description) is called while earlier calls may
\* be in flight
CallAutoTrainCharacter ==
    /\ Len(tasks) < MaxTrainCalls
    /\ tasks' = Append(tasks,
                   TaskEnter([op |-> [name |-> "autoTrainCharacter", name_ |-> <<"M","i","a">>,
                                      description |-> <<"a"," ","p","i","l","o","t">>,
                                      visualSeed |-> <<>>]]))
    /\ UNCHANGED <<retryVars, op, request, videoVars, ig, apiKey, reply, now, compVars>>

\* one invocation of the function a call passes to withRetry: the request is
\* sent, the provider answers and the profile is assembled with Date.now()
TrainTaskAnswered ==
    /\ \E i \in 1..Len(tasks) :
          /\ tasks[i].rpc = "call"
          /\ request' = TrainRequest(tasks[i].op)
          /\ \E text \in TrainTexts :
                tasks' = [tasks EXCEPT ![i] =
                            TaskAttempt(@, TrainFnResult(text, now), TaskRetries(tasks, i))]
    /\ UNCHANGED <<retryVars, op, videoVars, ig, apiKey, reply, now, compVars>>

\* the same invocation when the provider call throws
TrainTaskFails ==
    /\ \E i \in 1..Len(tasks) :
          /\ tasks[i].rpc = "call"
          /\ request' = TrainRequest(tasks[i].op)
          /\ \E e \in ScenarioErrors :
                tasks' = [tasks EXCEPT ![i] = TaskAttempt(@, Throw(e), TaskRetries(tasks, i))]
    /\ UNCHANGED <<retryVars, op, videoVars, ig, apiKey, reply, now, compVars>>

\* the retry timer of a call fires
TrainTaskRetry ==
    /\ \E i \in 1..Len(tasks) :
          /\ tasks[i].rpc = "wait"
          /\ tasks' = [tasks EXCEPT ![i] = TaskResume(@)]
    /\ UNCHANGED <<retryVars, op, request, videoVars, ig, apiKey, reply, now, compVars>>

\* the clock read by Date.now() reaches the next millisecond
ClockTick ==
    /\ now < MaxClock
    /\ now' = now + 1
    /\ UNCHANGED <<retryVars, op, request, videoVars, ig, apiKey, reply, tasks, compVars>>

TrainCallsNext ==
    \/ CallAutoTrainCharacter
    \/ TrainTaskAnswered
    \/ TrainTaskFails
    \/ TrainTaskRetry
    \/ ClockTick

SpecTrainCalls == TrainCallsInit /\ [][TrainCallsNext]_vars

(***************************************************************************)
(* ModelTrainer: the library and the reference images of a persona         *)
(***************************************************************************)
MaxUploads == 1

\* the libraries getAllModels() resolves with; a persona saved without
\* reference images has no such property
StoredLibraries ==
    { << [id |-> "m1", referenceImages |-> <<>>, lastModified |-> 0] >>,
      << [id |-> "m1", referenceImages |-> <<Img1>>, lastModified |-> 0],
         [id |-> "m2", lastModified |-> 0] >> }

\* the files chosen in the picker of the Add Ref slot (multiple)
FileSelections == { <<Img1>>, <<Img2, Img1, Img2, Img1, Img2>> }

\* models.find(m => m.id === selectedModelId), by position; 0 when none
SelectedModel(models, selectedModelId) ==
    IF \E i \in 1..Len(models) : models[i].id = selectedModelId
    THEN CHOOSE i \in 1..Len(models) :
            /\ models[i].id = selectedModelId
            /\ \A j \in 1..(i - 1) : models[j].id # selectedModelId
    ELSE 0

\* model.referenceImages || []
ReferenceImagesOf(model) ==
    IF "referenceImages" \in DOMAIN model THEN model.referenceImages ELSE <<>>

\* the slots the picker may still fill: 4 - currentRefs.length
RemainingSlots(currentRefs) == 4 - Len(currentRefs)

\* array.filter((_, i) => i !== index), index counted from 1
WithoutIndex(list, index) ==
    [k \in 1..(Len(list) - 1) |-> IF k < index THEN list[k] ELSE list[k + 1]]

\* updateSelectedModel(updates) with the selectedModelId of the render:
\* prev.map(m => m.id === selectedModelId ? { ...m, ...updates,
\* lastModified: Date.now() } : m)
UpdateModels(models, selectedModelId, updates) ==
    [i \in 1..Len(models) |->
        IF models[i].id = selectedModelId
        THEN [lastModified |-> now] @@ updates @@ models[i]
        ELSE models[i]]

TrainerInit ==
    /\ rpc = "idle"
    /\ retries = MAX_RETRIES
    /\ delay = Ms(RETRY_DELAY_MS)
    /\ calls = 0
    /\ waits = <<>>
    /\ first = NoResult
    /\ last = NoResult
    /\ outcome = Pending
    /\ op = [name |-> "none"]
    /\ request = NoRequest
    /\ vg = [mounted |-> FALSE]
    /\ gv = [pc |-> "idle"]
    /\ ig = [mounted |-> FALSE]
    /\ apiKey = "key-A"
    /\ reply = NoReply
    /\ tasks = <<>>
    /\ now = 0
    /\ sb = [mounted |-> FALSE]
    /\ NoViews
    /\ mt = [mounted |-> TRUE, isLoadingDB |-> TRUE, models |-> <<>>,
             selectedModelId |-> "", saveSuccess |-> FALSE, uploads |-> <<>>]

\* the mount effect after await getAllModels()
TrainerModelsLoaded ==
    /\ mt.mounted
    /\ mt.isLoadingDB
    /\ \E loaded \in StoredLibraries :
          mt' = [mt EXCEPT !.models = loaded, !.isLoadingDB = FALSE]
    /\ UNCHANGED <<retryVars, op, request, videoVars, ig, apiKey, reply, taskVars, sb, viewVars>>

\* onClick of a card of the gallery, shown when no persona is selected
TrainerSelectModel ==
    /\ mt.mounted
    /\ ~mt.isLoadingDB
    /\ mt.selectedModelId = ""
    /\ \E i \in 1..Len(mt.models) : mt' = [mt EXCEPT !.selectedModelId = mt.models[i].id]
    /\ UNCHANGED <<retryVars, op, request, videoVars, ig, apiKey, reply, taskVars, sb, viewVars>>

\* onClick of the back button of the editor
TrainerBack ==
    /\ mt.mounted
    /\ ~mt.isLoadingDB
    /\ mt.selectedModelId # ""
    /\ mt' = [mt EXCEPT !.selectedModelId = ""]
    /\ UNCHANGED <<retryVars, op, request, videoVars, ig, apiKey, reply, taskVars, sb, viewVars>>

\* onChange of the file input in the Add Ref slot, shown while the persona
\* has fewer than 4 reference images: handleReferenceUpload up to
\* Promise.all(filesToProcess.map(fileToBase64))
HandleReferenceUpload ==
    /\ mt.mounted
    /\ ~mt.isLoadingDB
    /\ Len(mt.uploads) < MaxUploads
    /\ LET i == SelectedModel(mt.models, mt.selectedModelId)
       IN  /\ i # 0
           /\ Len(ReferenceImagesOf(mt.models[i])) < 4
           /\ \E files \in FileSelections :
                 LET currentRefs == ReferenceImagesOf(mt.models[i])
                     remainingSlots == RemainingSlots(currentRefs)
                 IN  /\ remainingSlots > 0
                     /\ mt' = [mt EXCEPT !.uploads = Append(@,
                                  [selectedModelId |-> mt.selectedModelId,
                                   currentRefs |-> currentRefs,
                                   filesToProcess |->
                                      SubSeq(files, 1,
                                             IF Len(files) < remainingSlots
                                             THEN Len(files) ELSE remainingSlots)])]
    /\ UNCHANGED <<retryVars, op, request, videoVars, ig, apiKey, reply, taskVars, sb, viewVars>>

\* the files of an upload have been read: updateSelectedModel({
\* referenceImages: [...currentRefs, ...newBase64s] })
ReferenceFilesRead ==
    /\ mt.mounted
    /\ \E u \in 1..Len(mt.uploads) :
          mt' = [mt EXCEPT
                   !.models = UpdateModels(mt.models, mt.uploads[u].selectedModelId,
                                 [referenceImages |->
                                     mt.uploads[u].currentRefs \o mt.uploads[u].filesToProcess]),
                   !.saveSuccess = FALSE,
                   !.uploads = WithoutIndex(mt.uploads, u)]
    /\ UNCHANGED <<retryVars, op, request, videoVars, ig, apiKey, reply, taskVars, sb, viewVars>>

\* onClick of the remove button of a reference image: removeReferenceImage(index)
RemoveReferenceImage ==
    /\ mt.mounted
    /\ ~mt.isLoadingDB
    /\ LET i == SelectedModel(mt.models, mt.selectedModelId)
       IN  /\ i # 0
           /\ \E index \in 1..Len(ReferenceImagesOf(mt.models[i])) :
                 mt' = [mt EXCEPT
                          !.models = UpdateModels(mt.models, mt.selectedModelId,
                                        [referenceImages |->
                                            WithoutIndex(ReferenceImagesOf(mt.models[i]), index)]),
                          !.saveSuccess = FALSE]
    /\ UNCHANGED <<retryVars, op, request, videoVars, ig, apiKey, reply, taskVars, sb, viewVars>>

TrainerNext ==
    \/ TrainerModelsLoaded
    \/ TrainerSelectModel
    \/ TrainerBack
    \/ HandleReferenceUpload
    \/ ReferenceFilesRead
    \/ RemoveReferenceImage

SpecTrainer == TrainerInit /\ [][TrainerNext]_vars

(***************************************************************************)
(* Properties of withRetry                                                 *)
(***************************************************************************)
Failed(r) == r.attempt > 0 /\ ~r.result.ok
FailedRetryable(r) == Failed(r) /\ RetryableClass(r.result.error)
FailedNonRetryable(r) == Failed(r) /\ ~RetryableClass(r.result.error)

\* C1: an error classified as non-retryable (status neither 429 nor 503, no
\* marker in the message) is propagated at once: when the first invocation
\* throws it, fn was invoked exactly once, nothing was waited and withRetry
\* rejects with that error; thrown by a later invocation, it ends the call
\* with no wait and no invocation after it.
C1_NonRetryablePropagates ==
    /\ FailedNonRetryable(first) =>
          /\ rpc = "done"
          /\ calls = 1
          /\ waits = <<>>
          /\ outcome = [state |-> "rejected", thrown |-> first]
    /\ FailedNonRetryable(last) =>
          /\ rpc = "done"
          /\ calls = last.attempt
          /\ Len(waits) = calls - 1
          /\ outcome = [state |-> "rejected", thrown |-> last]

C1_Witness ==
    /\ rpc = "done"
    /\ calls = 1
    /\ FailedNonRetryable(first)
    /\ outcome.state = "rejected"

\* C2: after a first invocation that failed with a retryable-classified error
\* (the budget being positive) withRetry is not settled before a second
\* invocation; and an invocation that succeeds settles the call with its
\* value, after which fn is not invoked again.
C2_RetriesThenResolves ==
    /\ [](FailedRetryable(first) => (rpc = "done" => calls >= 2))
    /\ (FailedRetryable(first) ~> calls >= 2)
    /\ []((last.attempt > 0 /\ last.result.ok) =>
             /\ rpc = "done"
             /\ calls = last.attempt
             /\ outcome = [state |-> "resolved", value |-> last.result.value])
    /\ [][outcome.state = "resolved" => calls' = calls]_vars

C2_Witness ==
    /\ FailedRetryable(first)
    /\ calls >= 2
    /\ last.result.ok
    /\ outcome.state = "resolved"

\* C3: with the defaults the first wait is 1000 ms, each later wait is
\* min(1.5 x the previous wait, 10000 ms), so the waits never decrease, never
\* exceed 10000 ms and are exactly 10000 ms from the 7th retry on.
C3_BackoffSequence ==
    /\ Len(waits) >= 1 => waits[1] = [n |-> 1000, d |-> 1]
    /\ \A k \in 2..Len(waits) :
          LET p == waits[k - 1]
              w == waits[k]
          IN  /\ IF 3 * p.n <= 10000 * 2 * p.d
                 THEN 2 * w.n * p.d = 3 * p.n * w.d
                 ELSE w = [n |-> 10000, d |-> 1]
              /\ p.n * w.d <= w.n * p.d
    /\ \A k \in 1..Len(waits) :
          /\ waits[k].n <= 10000 * waits[k].d
          /\ k >= 7 => waits[k] = [n |-> 10000, d |-> 1]
    /\ Len(waits) >= 6 =>
          SubSeq(waits, 1, 6) =
             << [n |-> 1000, d |-> 1], [n |-> 1500, d |-> 1], [n |-> 2250, d |-> 1],
                [n |-> 3375, d |-> 1], [n |-> 10125, d |-> 2], [n |-> 30375, d |-> 4] >>

C3_Witness ==
    /\ Len(waits) = 20
    /\ waits[6] = [n |-> 30375, d |-> 4]
    /\ waits[7] = [n |-> 10000, d |-> 1]

\* C4: a withRetry call with the default budget terminates, and invokes fn at
\* most 21 times (1 initial attempt + 20 retries) even when every invocation
\* fails with a retryable error.
C4_Terminates ==
    /\ [](calls <= 21)
    /\ <>(rpc = "done" /\ outcome.state \in {"resolved", "rejected"})

C4_Witness ==
    /\ rpc = "done"
    /\ calls = 21
    /\ FailedRetryable(first)
    /\ FailedRetryable(last)

\* C5: when the retry budget is exhausted withRetry rejects with the error
\* thrown by the last invocation itself: the same value, not a wrapper and
\* not the error of an earlier attempt.
C5_LastErrorUnchanged ==
    (rpc = "done" /\ retries = 0 /\ Failed(last)) =>
        /\ last.attempt = calls
        /\ outcome = [state |-> "rejected", thrown |-> last]

C5_Witness ==
    /\ rpc = "done"
    /\ retries = 0
    /\ calls = 21
    /\ FailedRetryable(last)
    /\ first.result # last.result
    /\ outcome.state = "rejected"

\* C6: a provider rejection (malformed request, unsupported combination,
\* content policy) is never retried, whatever its message text: fn is invoked
\* once and the failure is surfaced at once.
C6_RejectionNeverRetried ==
    (Failed(first) /\ first.result.error \in RejectionErrors) =>
        /\ rpc = "done"
        /\ calls = 1
        /\ waits = <<>>
        /\ outcome = [state |-> "rejected", thrown |-> first]

(***************************************************************************)
(* Properties of generateImage and editImage                               *)
(***************************************************************************)
ImageRequestSent ==
    /\ op.name \in {"generateImage", "editImage"}
    /\ request.api = "generateContent"

\* C8: in generateImage and in editImage, highQuality = true sends the pro
\* image model with imageSize '2K' in the config; highQuality = false sends
\* the fast image model and a config without an imageSize field.
C8_QualityRouting ==
    ImageRequestSent =>
        /\ "config" \in DOMAIN request
        /\ "imageConfig" \in DOMAIN request.config
        /\ IF op.highQuality
           THEN /\ request.model = "gemini-3-pro-image-preview"
                /\ "imageSize" \in DOMAIN request.config.imageConfig
                /\ request.config.imageConfig.imageSize = "2K"
           ELSE /\ request.model = "gemini-2.5-flash-image"
                /\ "imageSize" \notin DOMAIN request.config.imageConfig

C8_Witness ==
    /\ ImageRequestSent
    /\ op.name = "editImage"
    /\ ~op.highQuality
    /\ request.model = "gemini-2.5-flash-image"
    /\ DOMAIN request.config.imageConfig = {"aspectRatio"}

\* C9: every request that generateImage or editImage sends to the provider,
\* for every quality flag and on every retry attempt, carries a config whose
\* aspect ratio is the caller's.
C9_AspectRatioAlwaysSent ==
    /\ (op.name \in {"generateImage", "editImage"} /\ calls > 0) => ImageRequestSent
    /\ ImageRequestSent =>
          /\ "config" \in DOMAIN request
          /\ "imageConfig" \in DOMAIN request.config
          /\ "aspectRatio" \in DOMAIN request.config.imageConfig
          /\ request.config.imageConfig.aspectRatio = op.aspectRatio

C9_Witness ==
    /\ ImageRequestSent
    /\ calls >= 2
    /\ op.name = "editImage"
    /\ ~op.highQuality
    /\ op.aspectRatio = "9:16"
    /\ request.config.imageConfig.aspectRatio = "9:16"

(***************************************************************************)
(* Properties of generateVideo and VideoGenerator                          *)
(***************************************************************************)
VideoRequestSent ==
    /\ op.name = "generateVideo"
    /\ request.api = "generateVideos"

\* C7: every generateVideo call with a non-empty referenceImages list sends
\* the consistency video model with resolution '720p' and aspectRatio '16:9',
\* whatever resolution and aspect ratio the caller requested.
C7_ReferencesForce720p169 ==
    (VideoRequestSent /\ Len(op.referenceImages) > 0) =>
        /\ request.options.model = "veo-3.1-generate-preview"
        /\ request.options.config.resolution = "720p"
        /\ request.options.config.aspectRatio = "16:9"

C7_Witness ==
    /\ VideoRequestSent
    /\ Len(op.referenceImages) = 3
    /\ op.aspectRatio = "9:16"
    /\ op.resolution = "1080p"
    /\ request.options.config.aspectRatio = "16:9"
    /\ request.options.config.resolution = "720p"

\* the persona handleGenerate works with: the selected one, 0 if none is found
CastIndex == FindModel(vg.customModels, vg.selectedModelId)

\* C10: a video requested with a selected persona that has both a descriptor
\* and reference images, and no start frame, passes the reference images to
\* generateVideo and passes the user's text unchanged as the prompt: the
\* descriptor is not injected.
C10_ReferencesSuppressDescriptor ==
    (/\ op.name = "generateVideo"
     /\ vg.startImage = <<>>
     /\ CastIndex > 0
     /\ vg.customModels[CastIndex].consistencyContext # <<>>
     /\ Len(vg.customModels[CastIndex].referenceImages) > 0)
    => /\ op.referenceImages = vg.customModels[CastIndex].referenceImages
       /\ op.prompt = vg.prompt

\* C11: when a video is requested with a start image set, the selected
\* persona is ignored: generateVideo receives the user's text as the prompt,
\* no reference images, and the start image.
C11_StartImageIgnoresPersona ==
    (op.name = "generateVideo" /\ vg.startImage # <<>>) =>
        /\ op.prompt = vg.prompt
        /\ op.referenceImages = <<>>
        /\ op.startImage = vg.startImage

C11_Witness ==
    /\ op.name = "generateVideo"
    /\ vg.startImage # <<>>
    /\ vg.prompt # <<>>
    /\ CastIndex > 0
    /\ vg.customModels[CastIndex].consistencyContext # <<>>
    /\ Len(vg.customModels[CastIndex].referenceImages) > 0
    /\ "image" \in DOMAIN gv.options

(***************************************************************************)
(* Properties of the polling loop of generateVideo                         *)
(***************************************************************************)
\* a generateVideo activation exists (running, settled or returned)
VideoJob == "handles" \in DOMAIN gv

\* the operation handle received last
LatestHandle == gv.handles[Len(gv.handles)]

\* the latest handle reports done
JobDone == VideoJob /\ gv.handles # <<>> /\ OperationDone(LatestHandle)

\* the latest handle reports the job still running
JobRunning == VideoJob /\ gv.handles # <<>> /\ ~OperationDone(LatestHandle)

\* generateVideo has rejected (and perhaps the caller has resumed since)
VideoFailed ==
    \/ gv.pc = "rejected"
    \/ gv.pc = "returned" /\ gv.settled = "rejected"

\* the activation of generateVideo is over
VideoSettled == gv.pc \in {"resolved", "rejected", "returned"}

\* C13: a status query is issued only while the latest handle is not done,
\* and polling stops at the first done handle: no handle is received after a
\* done one, a done submission handle means zero poll rounds, otherwise the
\* number of status queries answered is the index of the first done one, and
\* no provider call of the job is made after it.
C13_PollsOnlyWhileNotDone ==
    /\ [](VideoJob =>
            /\ \A i \in 1..(Len(gv.handles) - 1) : ~OperationDone(gv.handles[i])
            /\ (gv.pc \in {"sleep", "poll"} => JobRunning)
            /\ (request.api = "getVideosOperation" => ~OperationDone(request.operation))
            /\ (JobDone => gv.polls = Len(gv.handles) - 1))
    /\ [][JobDone => /\ calls' = calls
                     /\ (request' = request \/ request'.api = "fetch")]_vars

C13_Witness ==
    /\ gv.pc = "fetch"
    /\ gv.polls = 2
    /\ Len(gv.handles) = 3
    /\ ~OperationDone(gv.handles[2])
    /\ OperationDone(gv.handles[3])
    /\ request.api = "getVideosOperation"

\* C14: a done handle without a video uri, and a download that does not
\* succeed, make generateVideo reject with a terminal error; once it has
\* rejected, no submission, status query or download follows.
C14_MissingArtifactIsTerminal ==
    /\ []((JobDone /\ OperationUri(LatestHandle) = <<>>) =>
            /\ VideoFailed
            /\ (gv.pc = "rejected" => gv.error = [message |-> MsgNoUri])
            /\ request.api # "fetch")
    /\ [](("download" \in DOMAIN gv /\ gv.download # "ok") =>
            /\ gv.pc = "rejected"
            /\ gv.error.message \in {MsgDownload, MsgNetwork})
    /\ [](gv.pc = "resolved" => gv.download = "ok")
    /\ [][VideoFailed => UNCHANGED <<retryVars, request>>]_vars

C14_Witness ==
    /\ gv.pc = "rejected"
    /\ gv.polls >= 1
    /\ JobDone
    /\ OperationUri(LatestHandle) = <<>>
    /\ gv.error = [message |-> MsgNoUri]
    /\ calls = 1

\* C15: the status query of every poll round is issued only after 5000 ms
\* have passed since the handle before it was received; one wait per round.
C15_NoBusyPolling ==
    /\ (gv.pc = "sleep" =>
            /\ gv.timer + gv.elapsed >= PollIntervalMs
            /\ rpc = "done"
            /\ gv.polls = Len(gv.handles) - 1)
    /\ (gv.pc = "poll" =>
            /\ gv.elapsed >= PollIntervalMs
            /\ gv.polls = Len(gv.handles))

C15_Witness ==
    /\ gv.pc = "poll"
    /\ gv.polls = 2
    /\ gv.elapsed >= PollIntervalMs
    /\ request.api = "getVideosOperation"
    /\ request.operation = gv.handles[2]
    /\ calls = 1

\* C16: a retryable-classified failure of a status query does not abort the
\* job: generateVideo rejects only on a non-retryable error, on the 21st
\* failure in a row of one provider call, on a done handle without a uri or
\* on a failed download; a status query that failed while retries remain is
\* issued again, and a done handle with a uri whose download succeeds makes
\* generateVideo resolve with the artifact.
C16_TransientPollFailureTolerated ==
    /\ [](gv.pc = "rejected" =>
            \/ /\ outcome.state = "rejected"
               /\ FailedNonRetryable(last) \/ calls = MAX_RETRIES + 1
            \/ JobDone /\ OperationUri(LatestHandle) = <<>>
            \/ "download" \in DOMAIN gv /\ gv.download # "ok")
    /\ [][(gv.pc = "poll" /\ FailedRetryable(last) /\ calls <= MAX_RETRIES) =>
            (gv'.pc = "poll" /\ calls' >= calls)]_vars
    /\ [][(gv.pc = "fetch" /\ gv'.pc # "fetch" /\ gv'.download = "ok") =>
            (gv'.pc = "resolved" /\ gv'.value = <<"blob:video">>)]_vars
    /\ ((gv.pc = "poll" /\ FailedRetryable(last) /\ calls <= MAX_RETRIES)
            ~> (gv.pc = "poll" /\ rpc = "call" /\ last.attempt = calls))
    /\ ((gv.pc = "poll" /\ rpc = "call") ~> (gv.pc # "poll" \/ rpc = "done"))
    /\ (gv.pc = "fetch" ~> VideoSettled)

C16_Witness ==
    /\ gv.pc = "resolved"
    /\ gv.polls = 2
    /\ calls = MAX_RETRIES + 1
    /\ FailedRetryable(first)
    /\ last.result.ok
    /\ Len(waits) = MAX_RETRIES
    /\ gv.download = "ok"

\* C17: a non-retryable error thrown by the submission or by a status query
\* makes generateVideo reject with that error at the next step, and after a
\* rejection nothing of the job is pending: no retry wait, no poll wait, no
\* status query and no download follow.
C17_NonRetryableEndsJob ==
    /\ [][(gv.pc \in {"submit", "poll"} /\ FailedNonRetryable(last)) =>
            /\ gv'.pc = "rejected"
            /\ gv'.error = last.result.error
            /\ UNCHANGED <<retryVars, request>>]_vars
    /\ [](gv.pc = "rejected" => rpc \in {"done", "idle"})
    /\ [][VideoFailed => (VideoFailed' /\ calls' = calls /\ rpc' = rpc
                          /\ waits' = waits /\ request' = request)]_vars

C17_Witness ==
    /\ gv.pc = "rejected"
    /\ gv.polls = 2
    /\ FailedNonRetryable(last)
    /\ gv.error = last.result.error
    /\ calls >= 2
    /\ request.api = "getVideosOperation"

\* C18: the loop has no poll limit: while the handles received so far all
\* report the job running, generateVideo is waiting or querying, unless a
\* provider call rejected; it leaves the loop only on a done handle or on an
\* error that withRetry propagated.
C18_NoPollLimit ==
    /\ (JobRunning =>
            \/ gv.pc \in {"sleep", "poll"}
            \/ (VideoFailed /\ outcome.state = "rejected"))
    /\ ((VideoJob /\ gv.pc \in {"fetch", "resolved", "rejected", "returned"}) =>
            \/ JobDone
            \/ outcome.state = "rejected")

C18_Witness ==
    /\ gv.pc = "poll"
    /\ gv.polls = MaxPolls
    /\ Len(gv.handles) = MaxPolls
    /\ \A i \in 1..MaxPolls : ~OperationDone(gv.handles[i])
    /\ rpc = "call"

\* C19: the download of the finished video uses the credential the job was
\* submitted and polled with, even if the key of the process was replaced
\* during the job.
C19_DownloadUsesJobKey ==
    (VideoJob /\ request.api = "fetch") =>
        request.url[Len(request.url)] = gv.key

(***************************************************************************)
(* Properties of ImageGenerator                                            *)
(***************************************************************************)
\* the persona the component has selected, looked up in the store; 0 if none
SelectedPersona == FindModel(ImageStoredModels, ig.selectedModelId)

\* C12: the prompt passed to generateImage is the character template around
\* the user's text exactly when a persona is selected whose descriptor is
\* longer than 5 characters; otherwise it is the user's text unchanged.
C12_TemplateIffLongDescriptor ==
    (ig.mounted /\ op.name = "generateImage") =>
        op.prompt =
            IF /\ SelectedPersona > 0
               /\ Len(ImageStoredModels[SelectedPersona].consistencyContext) > 5
            THEN CharacterTemplate(ImageStoredModels[SelectedPersona].consistencyContext,
                                   ig.prompt)
            ELSE ig.prompt

(***************************************************************************)
(* Properties of generateStoryboardPlan                                    *)
(***************************************************************************)
\* the provider answered the latest call with a text that is not JSON
NonJsonReply ==
    /\ op.name = "generateStoryboardPlan"
    /\ reply.received
    /\ reply.text \in NonJsonTexts

\* C20: when the provider call succeeds with a text that is not JSON,
\* generateStoryboardPlan does not throw and does not retry: that invocation
\* is the last one and the call resolves with exactly the four placeholders
\* 'Scene 1', 'Scene 2', 'Scene 3', 'Scene 4'.
C20_NonJsonGivesPlaceholders ==
    NonJsonReply =>
        /\ rpc = "done"
        /\ calls = reply.attempt
        /\ Len(waits) = calls - 1
        /\ outcome.state = "resolved"
        /\ outcome.value.t = "arr"
        /\ Len(outcome.value.v) = 4
        /\ \A i \in 1..4 :
              outcome.value.v[i] = [t |-> "str", v |-> <<"S","c","e","n","e"," ">> \o <<ToString(i)>>]

C20_Witness ==
    /\ NonJsonReply
    /\ reply.text = <<"[","\"","D","a","w","n","\"",",">>
    /\ calls = 2
    /\ FailedRetryable(first)
    /\ outcome = [state |-> "resolved", value |-> ScenePlaceholders]

\* the provider answered the latest call of generateStoryboardPlan
StoryReply ==
    /\ op.name = "generateStoryboardPlan"
    /\ reply.received
    /\ reply.attempt = calls

\* a non-empty ordered sequence of strings
ScenesValue(value) ==
    /\ value.t = "arr"
    /\ Len(value.v) > 0
    /\ \A i \in 1..Len(value.v) : value.v[i].t = "str"

\* C21: for every successful provider response (JSON of the wrong shape, an
\* empty JSON array, empty or missing text included) generateStoryboardPlan
\* resolves with a non-empty sequence of strings: the provider's value if it
\* is one, the four placeholders otherwise.
C21_PlanIsNonEmptyStrings ==
    StoryReply =>
        /\ outcome.state = "resolved"
        /\ ScenesValue(outcome.value)
        /\ LET parsed == JSONParse(reply.text)
           IN  IF parsed.ok /\ ScenesValue(parsed.value)
               THEN outcome.value = parsed.value
               ELSE outcome.value = ScenePlaceholders

(***************************************************************************)
(* Properties of the replies to generateImage and editImage                *)
(***************************************************************************)
\* the provider answered the latest call of generateImage or editImage
ImageReply ==
    /\ op.name \in {"generateImage", "editImage"}
    /\ reply.received
    /\ reply.attempt = calls

\* the content parts of the reply, none when there is no candidate
ReplyContentParts ==
    IF Len(reply.response.candidates) > 0
    THEN reply.response.candidates[1].content.parts
    ELSE <<>>

\* part k of the reply carries inline data
Inline(k) == "inlineData" \in DOMAIN ReplyContentParts[k]

\* C25: a successful reply to generateImage or editImage with a part that
\* carries inline data yields 'data:image/png;base64,' followed by the data
\* of the first such part: parts before it are skipped, later ones ignored.
C25_FirstInlinePartAsDataUri ==
    (ImageReply /\ \E k \in 1..Len(ReplyContentParts) : Inline(k)) =>
        LET k == CHOOSE i \in 1..Len(ReplyContentParts) :
                    Inline(i) /\ \A j \in 1..(i - 1) : ~Inline(j)
        IN  /\ rpc = "done"
            /\ outcome.state = "resolved"
            /\ outcome.value = <<"data:image/png;base64,">> \o ReplyContentParts[k].inlineData.data

C25_Witness ==
    /\ ImageReply
    /\ op.name = "generateImage"
    /\ op.prompt = <<"a"," ","r","e","d"," ","b","a","l","l","o","o","n"," ","o","v","e","r"," ","P","a","r","i","s">>
    /\ ~op.highQuality
    /\ op.aspectRatio = "1:1"
    /\ request.config.imageConfig.aspectRatio = "1:1"
    /\ Len(ReplyContentParts) = 1
    /\ Inline(1)
    /\ outcome.state = "resolved"
    /\ Head(outcome.value) = "data:image/png;base64,"

\* C26: a successful reply to generateImage or editImage without any part
\* carrying inline data makes the operation fail with the 'no image
\* generated' error of that operation, with no retry: the call that got the
\* reply is the last one and nothing is waited after it.
C26_NoImageIsNotRetried ==
    (ImageReply /\ \A k \in 1..Len(ReplyContentParts) : ~Inline(k)) =>
        /\ rpc = "done"
        /\ outcome.state = "rejected"
        /\ outcome.thrown.attempt = calls
        /\ outcome.thrown.result.error =
              [message |-> IF op.name = "generateImage" THEN MsgNoImage ELSE MsgNoEditedImage]
        /\ Len(waits) = calls - 1

C26_Witness ==
    /\ ImageReply
    /\ op.name = "generateImage"
    /\ calls = 1
    /\ waits = <<>>
    /\ Len(ReplyContentParts) = 2
    /\ outcome.state = "rejected"
    /\ outcome.thrown.result.error.message = MsgNoImage

(***************************************************************************)
(* Properties of the facade operations                                     *)
(***************************************************************************)
\* the provider answered the latest call of autoTrainCharacter
TrainReply ==
    /\ op.name = "autoTrainCharacter"
    /\ reply.received
    /\ reply.attempt = calls

\* C22: when the provider call succeeds with a text that is not JSON,
\* autoTrainCharacter does not reject: it resolves with a fallback profile
\* of systemInstruction, consistencyContext and examples.
C22_MalformedProfileFallsBack ==
    (TrainReply /\ reply.text \in TrainNonJsonTexts) =>
        /\ outcome.state = "resolved"
        /\ DOMAIN outcome.value = {"systemInstruction", "consistencyContext", "examples"}

\* the promise the facade operation returned is settled
FacadeSettled ==
    IF op.name = "generateVideo"
    THEN gv.pc \in {"resolved", "rejected"}
    ELSE op.name # "none" /\ outcome.state # "pending"

\* what the promise was settled with
FacadeSettlement == IF op.name = "generateVideo" THEN gv ELSE outcome

C29_VideoRequestAttachments ==
    VideoRequestSent =>
        LET n == Len(op.referenceImages)
            options == request.options
        IN  /\ ("referenceImages" \in DOMAIN options.config) <=> (n > 0)
            /\ n > 0 =>
                  /\ Len(options.config.referenceImages) = (IF n < 3 THEN n ELSE 3)
                  /\ \A i \in 1..Len(options.config.referenceImages) :
                        options.config.referenceImages[i] =
                            [image |-> [imageBytes |-> op.referenceImages[i],
                                        mimeType |-> "image/png"],
                             referenceType |-> "ASSET"]
            /\ ("image" \in DOMAIN options) <=> (op.startImage # <<>> /\ n = 0)
            /\ "image" \in DOMAIN options => options.image.imageBytes = op.startImage
            /\ ~("image" \in DOMAIN options /\ "referenceImages" \in DOMAIN options.config)
            /\ (options.model = "veo-3.1-fast-generate-preview") <=> (n = 0)

C29_Witness ==
    /\ VideoRequestSent
    /\ Len(op.referenceImages) = 4
    /\ op.startImage # <<>>
    /\ Len(request.options.config.referenceImages) = 3
    /\ "image" \notin DOMAIN request.options
    /\ request.options.model = "veo-3.1-generate-preview"

\* C30: the prompt of a video request is never empty: the caller's prompt
\* if it is not empty, otherwise 'Animate this image' when a start image is
\* given and 'A cinematic video' when none is.
C30_VideoPromptNeverEmpty ==
    VideoRequestSent =>
        /\ request.options.prompt # <<>>
        /\ request.options.prompt =
              IF op.prompt # <<>> THEN op.prompt
              ELSE IF op.startImage # <<>>
              THEN <<"A","n","i","m","a","t","e"," ","t","h","i","s"," ","i","m","a","g","e">>
              ELSE <<"A"," ","c","i","n","e","m","a","t","i","c"," ","v","i","d","e","o">>

C30_Witness ==
    /\ VideoRequestSent
    /\ op.prompt = <<>>
    /\ op.startImage # <<>>
    /\ Len(op.referenceImages) > 0
    /\ request.options.prompt = <<"A","n","i","m","a","t","e"," ","t","h","i","s"," ","i","m","a","g","e">>

\* the record of call i alone tells its attempts, its waits and its outcome
CallKeepsOwnCount(t) ==
    /\ Len(t.waits) = MAX_RETRIES - t.retries + (IF t.rpc = "wait" THEN 1 ELSE 0)
    /\ t.calls = Len(t.waits) + (IF t.rpc = "done" THEN 1 ELSE 0)
    /\ Len(t.waits) >= 1 => t.waits[1] = Ms(RETRY_DELAY_MS)
    /\ \A k \in 2..Len(t.waits) : t.waits[k] = NextDelay(t.waits[k - 1])
    /\ t.rpc = "wait" => ~t.last.result.ok /\ RetryableClass(t.last.result.error)
    /\ t.rpc = "done" /\ t.outcome.state = "resolved" =>
          t.last.result.ok /\ t.outcome.value = t.last.result.value
    /\ t.rpc = "done" /\ t.outcome.state = "rejected" =>
          /\ t.outcome.thrown = t.last
          /\ ~t.last.result.ok
          /\ ~RetryableClass(t.last.result.error) \/ t.calls = MAX_RETRIES + 1

\* C27: under any interleaving of two or more facade calls in flight (the
\* image calls started by Generate All Images of the Storyboard), each call
\* keeps its own remaining-retry count and current delay: the attempts, the
\* delays and the outcome of a call follow from the results of its own
\* attempts, and a step of one call leaves the record of every other call
\* unchanged.
C27_CallsAreIndependent ==
    /\ [](\A i \in 1..Len(tasks) : tasks[i].rpc # "returned" => CallKeepsOwnCount(tasks[i]))
    /\ [][\A i \in 1..Len(tasks) :
             (Len(tasks') = Len(tasks) /\ tasks'[i] # tasks[i]) =>
                \A j \in 1..Len(tasks) : j # i => tasks'[j] = tasks[j]]_vars

\* two calls started by Generate All Images: the first has been rejected at
\* its second attempt, the second is in its third wait
C27_Witness ==
    /\ Len(tasks) = 2
    /\ tasks[1].index = 1 /\ tasks[2].index = 2
    /\ tasks[1].rpc = "done" /\ tasks[1].outcome.state = "rejected" /\ tasks[1].calls = 2
    /\ tasks[2].rpc = "wait" /\ Len(tasks[2].waits) = 3 /\ tasks[2].retries = MAX_RETRIES - 2
    /\ tasks[2].delay = [n |-> 2250, d |-> 1]

\* the example ids of the profile call i resolved with
ExampleIds(i) ==
    { tasks[i].outcome.value.examples[k].id :
         k \in 1..Len(tasks[i].outcome.value.examples) }

\* C23: the ids of the examples autoTrainCharacter returns are unique within
\* a profile and across calls, two calls answered within the same clock
\* millisecond included.
C23_ExampleIdsUnique ==
    \A i \in 1..Len(tasks) :
       tasks[i].outcome.state = "resolved" =>
          /\ \A k, l \in 1..Len(tasks[i].outcome.value.examples) :
                k # l => tasks[i].outcome.value.examples[k].id
                            # tasks[i].outcome.value.examples[l].id
          /\ \A j \in 1..Len(tasks) :
                j # i /\ tasks[j].outcome.state = "resolved" =>
                   ExampleIds(i) \cap ExampleIds(j) = {}

\* C28: a persona holds at most 3 reference images: after any sequence of
\* handleReferenceUpload and removeReferenceImage actions on a persona its
\* referenceImages list is never longer than 3.
C28_AtMostThreeReferences ==
    mt.mounted =>
       \A i \in 1..Len(mt.models) : Len(ReferenceImagesOf(mt.models[i])) <= 3

(***************************************************************************)
(* Properties of VideoGenerator with a persona without reference images    *)
(***************************************************************************)
\* the persona the VideoGenerator has selected, looked up in the store; 0 if none
SelectedCast == FindModel(StoredModels, vg.selectedModelId)

\* C31: a video requested with a selected persona that has a descriptor but
\* no reference images, and no start frame, passes to generateVideo the
\* cinematic template around the user's text and no reference images, and
\* the descriptor of such a persona is longer than 5 characters.
C31_DescriptorOnlyGivesTemplate ==
    (/\ op.name = "generateVideo"
     /\ vg.startImage = <<>>
     /\ SelectedCast > 0
     /\ StoredModels[SelectedCast].consistencyContext # <<>>
     /\ StoredModels[SelectedCast].referenceImages = <<>>)
    => /\ op.prompt = CinematicPrefix \o StoredModels[SelectedCast].consistencyContext
                         \o CinematicAction \o vg.prompt
       /\ op.referenceImages = <<>>
       /\ Len(StoredModels[SelectedCast].consistencyContext) > 5

(***************************************************************************)
(* Properties of chatWithCustomModel                                       *)
(***************************************************************************)
\* C32: the history chatWithCustomModel sends is, in order, a user turn with
\* the input and then a model turn with the output of each example, then
\* every message of the chat history with its own role; its length is twice
\* the number of examples plus the number of messages, and the new message
\* is sent as the message, after the history.
C32_ChatHistoryOrder ==
    (op.name = "chatWithCustomModel" /\ request.api = "sendMessage") =>
        LET examples == op.modelConfig.examples
            n == Len(examples)
        IN  /\ Len(request.history) = 2 * n + Len(op.history)
            /\ \A k \in 1..n :
                  /\ request.history[2 * k - 1] =
                        [role |-> "user", parts |-> << [text |-> examples[k].input] >>]
                  /\ request.history[2 * k] =
                        [role |-> "model", parts |-> << [text |-> examples[k].output] >>]
            /\ \A j \in 1..Len(op.history) :
                  request.history[2 * n + j] =
                     [role |-> op.history[j].role,
                      parts |-> << [text |-> op.history[j].text] >>]
            /\ request.message = op.newMessage

\* two examples and a history of three messages that starts with a model
\* turn, sent again after a retry
C32_Witness ==
    /\ op.name = "chatWithCustomModel"
    /\ request.api = "sendMessage"
    /\ Len(op.modelConfig.examples) = 2
    /\ Len(op.history) = 3
    /\ op.history[1].role = "model"
    /\ Len(request.history) = 7
    /\ calls = 2
    /\ outcome.state = "resolved"

(***************************************************************************)
(* Properties of the retry budget of the provider calls of generateVideo   *)
(***************************************************************************)
\* the submission or a status query of generateVideo is under way
VideoCallUnderWay == gv.pc \in {"submit", "poll"} /\ rpc \in {"call", "wait"}

\* C33: each provider call inside generateVideo has a fresh retry budget and
\* a fresh initial delay: the submission and every status query start with 20
\* retries and 1000 ms whatever earlier calls of the job consumed, the
\* retries a call has left are 20 less its own waits, its first wait is
\* 1000 ms, and it is given up on a retryable error only at its 21st attempt.
C33_FreshBudgetPerCall ==
    /\ [][(gv'.pc \in {"submit", "poll"} /\ gv'.pc # gv.pc) =>
             /\ rpc' = "call"
             /\ retries' = MAX_RETRIES
             /\ delay' = Ms(RETRY_DELAY_MS)]_vars
    /\ [](VideoCallUnderWay =>
             /\ retries = MAX_RETRIES - Len(waits) + (IF rpc = "wait" THEN 1 ELSE 0)
             /\ Len(waits) >= 1 => waits[1] = Ms(RETRY_DELAY_MS)
             /\ waits = <<>> => delay = Ms(RETRY_DELAY_MS))
    /\ []((/\ gv.pc \in {"submit", "poll"}
           /\ rpc = "done"
           /\ outcome.state = "rejected"
           /\ RetryableClass(outcome.thrown.result.error))
          => calls = MAX_RETRIES + 1)

\* the first status query has used its 20 retries (the delay has reached
\* 10000 ms) and reported the job running; the timer of the loop has fired
\* and the second query is about to be issued
C33_Witness ==
    /\ gv.pc = "sleep"
    /\ gv.polls = 1
    /\ gv.timer = 0
    /\ Len(gv.handles) = 2
    /\ retries = 0
    /\ Len(waits) = MAX_RETRIES
    /\ delay = Ms(MAX_BACKOFF_MS)

(***************************************************************************)
(* Properties of the Storyboard                                            *)
(***************************************************************************)
\* the image request i of the Storyboard has neither resolved nor failed
InFlight(i) == tasks[i].rpc \in {"call", "wait"}

\* C34: after Generate All Images has started an image request for every
\* panel, every panel whose request is still in flight is marked isLoading,
\* and the isLoading of a panel becomes false only when a request of that
\* panel has resolved or failed.
C34_LoadingWhileInFlight ==
    /\ [](sb.mounted =>
            \A i \in 1..Len(tasks) :
               (InFlight(i) /\ tasks[i].index <= Len(sb.panels)) =>
                  sb.panels[tasks[i].index].isLoading)
    /\ [][sb.mounted =>
            \A k \in 1..Len(sb.panels) :
               (/\ k <= Len(sb'.panels)
                /\ sb.panels[k].isLoading
                /\ ~sb'.panels[k].isLoading)
               => \E i \in 1..Len(tasks) :
                     /\ tasks[i].index = k
                     /\ tasks[i].rpc = "done"
                     /\ tasks'[i].rpc = "returned"]_vars

\* C35: an image produced by the request of a panel is stored only in the
\* panel whose description the request was made from: when a new plan is
\* created while a request of the previous plan is in flight, the late
\* result is attached to no panel of the new plan.
C35_ImageStaysWithItsPanel ==
    [][sb.mounted =>
         \A i \in 1..Len(tasks) :
            (/\ tasks[i].rpc = "done"
             /\ tasks'[i].rpc = "returned"
             /\ tasks[i].outcome.state = "resolved")
            => \A k \in 1..Len(sb.panels) :
                  sb'.panels[k].imageUrl # sb.panels[k].imageUrl =>
                     /\ k = tasks[i].index
                     /\ tasks[i].plan = sb.plans
                     /\ tasks[i].prompt = PanelPrompt(sb.panels[k], sb.storyPrompt)]_vars

(***************************************************************************)
(* Analyzer                                                                *)
(***************************************************************************)
MaxAnalyses == 2

ErrorAnalyzingMedia == <<"E","r","r","o","r"," ","a","n","a","l","y","z","i","n","g"," ","m","e","d","i","a",".">>

\* the files the user can choose: their type and their content in base64
MediaFiles == { [type |-> t, base64 |-> d] : t \in MimeTypes, d \in Base64Images }

\* the component mounts: useState defaults
AnalyzerInit ==
    /\ rpc = "idle"
    /\ retries = MAX_RETRIES
    /\ delay = Ms(RETRY_DELAY_MS)
    /\ calls = 0
    /\ waits = <<>>
    /\ first = NoResult
    /\ last = NoResult
    /\ outcome = Pending
    /\ op = [name |-> "none"]
    /\ request = NoRequest
    /\ vg = [mounted |-> FALSE]
    /\ gv = [pc |-> "idle"]
    /\ ig = [mounted |-> FALSE]
    /\ apiKey = "key-A"
    /\ reply = NoReply
    /\ tasks = <<>>
    /\ now = 0
    /\ sb = [mounted |-> FALSE]
    /\ mt = [mounted |-> FALSE]
    /\ ed = [mounted |-> FALSE]
    /\ app = [mounted |-> FALSE]
    /\ an = [mounted |-> TRUE, selectedFile |-> <<>>, preview |-> <<>>,
             prompt |-> <<>>, analysis |-> <<>>, loading |-> FALSE,
             pc |-> "idle", runs |-> 0]

\* no run of handleAnalyze is under way
AnalyzerAtRest == an.pc \in {"idle", "resolved", "rejected"}

\* handleFileChange: a file is chosen, its preview is read, the analysis is
\* cleared
AnalyzerFileChange ==
    /\ AnalyzerAtRest
    /\ \E file \in MediaFiles :
          /\ <<file>> # an.selectedFile
          /\ an' = [an EXCEPT !.selectedFile = <<file>>, !.preview = file.base64,
                              !.analysis = <<>>]
    /\ UNCHANGED <<retryVars, op, request, videoVars, ig, apiKey, reply, taskVars,
                   sb, mt, ed, app>>

\* onChange of the prompt textarea
AnalyzerSetPrompt ==
    /\ AnalyzerAtRest
    /\ \E p \in MediaPrompts : p # an.prompt /\ an' = [an EXCEPT !.prompt = p]
    /\ UNCHANGED <<retryVars, op, request, videoVars, ig, apiKey, reply, taskVars,
                   sb, mt, ed, app>>

\* handleAnalyze up to reader.onload = ...; the button is disabled while
\* loading or without a file
HandleAnalyze ==
    /\ AnalyzerAtRest
    /\ ~an.loading
    /\ an.selectedFile # <<>>
    /\ an.runs < MaxAnalyses
    /\ an' = [an EXCEPT !.loading = TRUE, !.pc = "reading", !.runs = @ + 1]
    /\ UNCHANGED <<retryVars, op, request, videoVars, ig, apiKey, reply, taskVars,
                   sb, mt, ed, app>>

\* reader.onload up to await analyzeMedia(base64, selectedFile.type, prompt)
AnalyzerReaderLoads ==
    /\ an.pc = "reading"
    /\ op' = [name |-> "analyzeMedia", base64Data |-> an.selectedFile[1].base64,
              mimeType |-> an.selectedFile[1].type, prompt |-> an.prompt]
    /\ WithRetryEnter
    /\ an' = [an EXCEPT !.pc = "awaiting"]
    /\ UNCHANGED <<request, videoVars, ig, apiKey, reply, taskVars, sb, mt, ed, app>>

\* reader.onload after await analyzeMedia(...): setAnalysis(response) and
\* setLoading(false) when it resolved; when it rejected the promise of the
\* async onload rejects, outside the try of handleAnalyze, and nothing is set
AnalyzerOnloadResumes ==
    /\ an.pc = "awaiting"
    /\ rpc = "done"
    /\ rpc' = "idle"
    /\ IF outcome.state = "resolved"
       THEN an' = [an EXCEPT !.analysis = outcome.value, !.loading = FALSE,
                             !.pc = "resolved"]
       ELSE an' = [an EXCEPT !.pc = "rejected"]
    /\ UNCHANGED <<retries, delay, calls, waits, first, last, outcome, op, request,
                   videoVars, ig, apiKey, reply, taskVars, sb, mt, ed, app>>

AnalyzerNext ==
    \/ AnalyzerFileChange
    \/ AnalyzerSetPrompt
    \/ HandleAnalyze
    \/ AnalyzerReaderLoads
    \/ TextCallAnswered
    \/ TextCallFails
    \/ TextRetry
    \/ AnalyzerOnloadResumes

SpecAnalyzer == AnalyzerInit /\ [][AnalyzerNext]_vars

\* C36: every run of handleAnalyze ends with loading false, and with the
\* analysis set to the result of analyzeMedia when it resolved and to
\* 'Error analyzing media.' when it rejected
C36_AnalyzeSettlesBothWays ==
    [][an.pc = "awaiting" /\ an'.pc # "awaiting"
         => /\ ~an'.loading
            /\ an'.analysis = IF outcome.state = "resolved" THEN outcome.value
                              ELSE ErrorAnalyzingMedia]_vars

(***************************************************************************)
(* Editor                                                                  *)
(***************************************************************************)
MaxRuns == 2

RemasterInstructions == <<"High resolution, detailed, photorealistic version of this image, 4k, masterpiece, highly detailed texture">>

EditorFiles == { [type |-> "image/png", base64 |-> Img1], [type |-> "image/jpeg", base64 |-> Img2] }

EditorPrompts == { <<>>, <<"a"," ","r","e","d"," ","b","a","l","l","o","o","n">> }

\* the component mounts: useState defaults
EditorInit ==
    /\ rpc = "idle"
    /\ retries = MAX_RETRIES
    /\ delay = Ms(RETRY_DELAY_MS)
    /\ calls = 0
    /\ waits = <<>>
    /\ first = NoResult
    /\ last = NoResult
    /\ outcome = Pending
    /\ op = [name |-> "none"]
    /\ request = NoRequest
    /\ vg = [mounted |-> FALSE]
    /\ gv = [pc |-> "idle"]
    /\ ig = [mounted |-> FALSE]
    /\ apiKey = "key-A"
    /\ reply = NoReply
    /\ tasks = <<>>
    /\ now = 0
    /\ sb = [mounted |-> FALSE]
    /\ mt = [mounted |-> FALSE]
    /\ an = [mounted |-> FALSE]
    /\ app = [mounted |-> FALSE]
    /\ ed = [mounted |-> TRUE, selectedFile |-> <<>>, preview |-> <<>>,
             prompt |-> <<>>, loading |-> FALSE, result |-> <<>>, mode |-> "edit",
             aspectRatio |-> "1:1", pc |-> "idle", alerts |-> 0, runs |-> 0]

\* user input is explored while handleProcess is not running
EditorAtRest == ed.pc = "idle"

\* handleFileChange: a file is chosen, its preview is read, the result is
\* cleared
EditorFileChange ==
    /\ EditorAtRest
    /\ \E file \in EditorFiles :
          /\ <<file>> # ed.selectedFile
          /\ ed' = [ed EXCEPT !.selectedFile = <<file>>, !.preview = file.base64,
                              !.result = <<>>]
    /\ UNCHANGED <<retryVars, op, request, videoVars, ig, apiKey, reply, taskVars,
                   sb, mt, an, app>>

\* onChange of the instructions field
EditorSetPrompt ==
    /\ EditorAtRest
    /\ \E p \in EditorPrompts : p # ed.prompt /\ ed' = [ed EXCEPT !.prompt = p]
    /\ UNCHANGED <<retryVars, op, request, videoVars, ig, apiKey, reply, taskVars,
                   sb, mt, an, app>>

\* onClick of the Edit and Upscale/Remaster buttons
EditorSetMode ==
    /\ EditorAtRest
    /\ \E mode \in {"edit", "remaster"} : mode # ed.mode /\ ed' = [ed EXCEPT !.mode = mode]
    /\ UNCHANGED <<retryVars, op, request, videoVars, ig, apiKey, reply, taskVars,
                   sb, mt, an, app>>

\* handleProcess up to await convertToBase64(selectedFile); the button is
\* disabled while loading or without a file, and the handler returns at once
\* without instructions in edit mode
HandleProcess ==
    /\ EditorAtRest
    /\ ~ed.loading
    /\ ed.selectedFile # <<>>
    /\ ~(ed.prompt = <<>> /\ ed.mode = "edit")
    /\ ed.runs < MaxRuns
    /\ ed' = [ed EXCEPT !.loading = TRUE, !.result = <<>>, !.pc = "converting",
                        !.runs = @ + 1]
    /\ UNCHANGED <<retryVars, op, request, videoVars, ig, apiKey, reply, taskVars,
                   sb, mt, an, app>>

\* convertToBase64 resolves: handleProcess up to await editImage(base64,
\* instructions, selectedFile.type, isRemaster, aspectRatio)
EditorFileConverted ==
    /\ ed.pc = "converting"
    /\ LET isRemaster == ed.mode = "remaster"
           instructions == IF isRemaster
                           THEN (IF ed.prompt # <<>> THEN ed.prompt
                                 ELSE RemasterInstructions)
                           ELSE ed.prompt
       IN  op' = [name |-> "editImage", base64Image |-> ed.selectedFile[1].base64,
                  prompt |-> instructions, mimeType |-> ed.selectedFile[1].type,
                  highQuality |-> isRemaster, aspectRatio |-> ed.aspectRatio]
    /\ WithRetryEnter
    /\ ed' = [ed EXCEPT !.pc = "awaiting"]
    /\ UNCHANGED <<request, videoVars, ig, apiKey, reply, taskVars, sb, mt, an, app>>

\* convertToBase64 rejects (reader.onerror): the alert, and finally
\* setLoading(false)
EditorFileUnreadable ==
    /\ ed.pc = "converting"
    /\ ed' = [ed EXCEPT !.loading = FALSE, !.alerts = @ + 1, !.pc = "idle"]
    /\ UNCHANGED <<retryVars, op, request, videoVars, ig, apiKey, reply, taskVars,
                   sb, mt, an, app>>

\* a handleProcess whose setLoading(false) follows setResult in the try block
HandleProcessResumesNoFinally ==
    /\ ed.pc = "awaiting"
    /\ rpc = "done"
    /\ rpc' = "idle"
    /\ IF outcome.state = "resolved"
       THEN ed' = [ed EXCEPT !.loading = FALSE, !.result = outcome.value, !.pc = "idle"]
       ELSE ed' = [ed EXCEPT !.alerts = @ + 1, !.pc = "idle"]
    /\ UNCHANGED <<retries, delay, calls, waits, first, last, outcome, op, request,
                   videoVars, ig, apiKey, reply, taskVars, sb, mt, an, app>>

\* handleProcess after await editImage(...): the result on success, the alert
\* on failure, and finally setLoading(false)
HandleProcessResumes ==
    /\ ed.pc = "awaiting"
    /\ rpc = "done"
    /\ rpc' = "idle"
    /\ IF outcome.state = "resolved"
       THEN ed' = [ed EXCEPT !.loading = FALSE, !.result = outcome.value, !.pc = "idle"]
       ELSE ed' = [ed EXCEPT !.loading = FALSE, !.alerts = @ + 1, !.pc = "idle"]
    /\ UNCHANGED <<retries, delay, calls, waits, first, last, outcome, op, request,
                   videoVars, ig, apiKey, reply, taskVars, sb, mt, an, app>>

EditorNext ==
    \/ EditorFileChange
    \/ EditorSetPrompt
    \/ EditorSetMode
    \/ HandleProcess
    \/ EditorFileConverted
    \/ EditorFileUnreadable
    \/ ImageCallAnswered
    \/ ImageCallFails
    \/ ImageRetry
    \/ HandleProcessResumes

(***************************************************************************)
(* The three generators, each used more than once                          *)
(***************************************************************************)
\* the promise of VideoGenerator's handleGenerate has settled: the button
\* starts a new run
HandleGenerateReturns ==
    /\ gv.pc = "returned"
    /\ Len(vg.history) + vg.alerts < MaxRuns
    /\ gv' = [pc |-> "idle"]
    /\ UNCHANGED <<retryVars, op, request, vg, ig, apiKey, reply, taskVars, compVars>>

\* the promise of ImageGenerator's handleGenerate has settled: the button
\* starts a new run
ImageHandleGenerateReturns ==
    /\ ig.pc = "returned"
    /\ Len(ig.history) + ig.alerts < MaxRuns
    /\ ig' = [ig EXCEPT !.pc = "idle"]
    /\ UNCHANGED <<retryVars, op, request, videoVars, apiKey, reply, taskVars, compVars>>

\* App renders one of the components
GeneratorsInit == VideoInit \/ ImageGenInit \/ EditorInit

VideoGeneratorNext ==
    /\ vg.mounted
    /\ \/ SetPrompt
       \/ SetStartImage
       \/ HandleGenerate
       \/ VideoSubmitAnswered
       \/ VideoSubmitFails
       \/ VideoPollAnswered
       \/ VideoPollFails
       \/ VideoRetry
       \/ VideoAwaitResumes
       \/ VideoClockAdvances
       \/ VideoPollTimer
       \/ VideoFetchAnswered
       \/ VideoFetchFails
       \/ HandleGenerateResumes
       \/ HandleGenerateReturns

ImageGeneratorNext ==
    /\ ig.mounted
    /\ \/ ImageSetPrompt
       \/ ImageHandleGenerate
       \/ ImageCallAnswered
       \/ ImageCallFails
       \/ ImageRetry
       \/ ImageHandleGenerateResumes
       \/ ImageHandleGenerateReturns

GeneratorsNext ==
    \/ VideoGeneratorNext
    \/ ImageGeneratorNext
    \/ (ed.mounted /\ EditorNext)

SpecGenerators == GeneratorsInit /\ [][GeneratorsNext]_vars

\* the run of a component's handler, from the click to the end of its finally
\* block
VideoRequestInFlight == gv.pc \notin {"idle", "returned"}
ImageRequestInFlight == ig.pc = "awaiting"
EditorRequestInFlight == ed.pc \in {"converting", "awaiting"}

\* the history entries a component keeps
HistoryOf(component) ==
    IF "history" \in DOMAIN component THEN component.history ELSE <<>>

\* loading is true exactly while the request is in flight, so the trigger
\* (disabled while loading) is never enabled during a request
LoadingWhileRequestInFlight ==
    /\ vg.mounted => (vg.loading <=> VideoRequestInFlight)
    /\ ig.mounted => (ig.loading <=> ImageRequestInFlight)
    /\ ed.mounted => (ed.loading <=> EditorRequestInFlight)

\* the step that ends a run of ImageGenerator's or VideoGenerator's handler
\* prepends one entry for the result on success and leaves the history alone
\* on failure
GeneratorHistoryStep ==
    /\ (ig.mounted /\ ig.pc = "awaiting" /\ ig'.pc # "awaiting")
         => IF outcome.state = "resolved"
            THEN /\ Len(ig'.history) = Len(ig.history) + 1
                 /\ Tail(ig'.history) = ig.history
                 /\ Head(ig'.history).url = outcome.value
            ELSE ig'.history = ig.history
    /\ (vg.mounted /\ gv.pc \in {"resolved", "rejected"} /\ gv'.pc = "returned")
         => IF gv.pc = "resolved"
            THEN /\ Len(vg'.history) = Len(vg.history) + 1
                 /\ Tail(vg'.history) = vg.history
                 /\ Head(vg'.history).url = gv.value
            ELSE vg'.history = vg.history

MaxDeletes == 2
MaxEdits == 1

PersonaNames == { <<"A","n","n">>, <<"B","o","b">> }

\* the debounced auto-save effect, run after a render in which models or
\* isLoadingDB changed: the cleanup clears the timer of the previous run, and
\* a new timer is set with the models of this render unless there are none or
\* the library is still loading
AutoSaveEffect(next) ==
    [next EXCEPT !.timer = IF Len(next.models) = 0 \/ next.isLoadingDB
                           THEN <<>>
                           ELSE << next.models >>]

\* saveModel(m) for each m of models, in order: the requests sent to the store
SaveRequests(models) ==
    [i \in 1..Len(models) |-> [api |-> "save", id |-> models[i].id]]

\* the component mounts: useState defaults, getAllModels() is pending
AutoSaveInit ==
    /\ rpc = "idle"
    /\ retries = MAX_RETRIES
    /\ delay = Ms(RETRY_DELAY_MS)
    /\ calls = 0
    /\ waits = <<>>
    /\ first = NoResult
    /\ last = NoResult
    /\ outcome = Pending
    /\ op = [name |-> "none"]
    /\ request = NoRequest
    /\ vg = [mounted |-> FALSE]
    /\ gv = [pc |-> "idle"]
    /\ ig = [mounted |-> FALSE]
    /\ apiKey = "key-A"
    /\ reply = NoReply
    /\ tasks = <<>>
    /\ now = 0
    /\ sb = [mounted |-> FALSE]
    /\ NoViews
    /\ mt = [mounted |-> TRUE, isLoadingDB |-> TRUE, models |-> <<>>,
             selectedModelId |-> "", saveSuccess |-> FALSE, uploads |-> <<>>,
             timer |-> <<>>, deleting |-> <<>>, requests |-> <<>>, edits |-> 0]

\* the mount effect after await getAllModels(): setModels(loaded),
\* setIsLoadingDB(false), and the auto-save effect of that render
AutoSaveModelsLoaded ==
    /\ mt.isLoadingDB
    /\ \E loaded \in StoredLibraries :
          mt' = AutoSaveEffect([mt EXCEPT !.models = loaded, !.isLoadingDB = FALSE])
    /\ UNCHANGED <<retryVars, op, request, videoVars, ig, apiKey, reply, taskVars, sb, viewVars>>

\* onChange of the name field of the editor: updateSelectedModel({ name }),
\* and the auto-save effect of that render
UpdateSelectedName ==
    /\ ~mt.isLoadingDB
    /\ SelectedModel(mt.models, mt.selectedModelId) # 0
    /\ mt.edits < MaxEdits
    /\ \E name \in PersonaNames :
          mt' = AutoSaveEffect(
                   [mt EXCEPT !.models = UpdateModels(mt.models, mt.selectedModelId,
                                                      [name |-> name]),
                              !.saveSuccess = FALSE,
                              !.edits = @ + 1])
    /\ UNCHANGED <<retryVars, op, request, videoVars, ig, apiKey, reply, taskVars, sb, viewVars>>

\* the callback of the auto-save timer: models.forEach(m => saveModel(m))
AutoSaveTimerFires ==
    /\ mt.timer # <<>>
    /\ mt' = [mt EXCEPT !.requests = @ \o SaveRequests(mt.timer[1]), !.timer = <<>>]
    /\ UNCHANGED <<retryVars, op, request, videoVars, ig, apiKey, reply, taskVars, sb, viewVars>>

\* onClick of the delete button of a gallery card, confirmed: deleteModel(id)
\* up to await deleteModelById(id)
DeleteModel ==
    /\ ~mt.isLoadingDB
    /\ mt.selectedModelId = ""
    /\ Len(SelectSeq(mt.requests, LAMBDA r : r.api = "deleteById")) < MaxDeletes
    /\ \E i \in 1..Len(mt.models) :
          mt' = [mt EXCEPT !.requests = Append(@, [api |-> "deleteById",
                                                    id |-> mt.models[i].id]),
                           !.deleting = Append(@, [id |-> mt.models[i].id,
                                                   selectedModelId |-> mt.selectedModelId])]
    /\ UNCHANGED <<retryVars, op, request, videoVars, ig, apiKey, reply, taskVars, sb, viewVars>>

\* deleteModel after await deleteModelById(id): setModels(prev =>
\* prev.filter(m => m.id !== id)), setSelectedModelId(null) if the persona was
\* the selected one, and the auto-save effect of that render
DeleteModelResumes ==
    /\ \E d \in 1..Len(mt.deleting) :
          LET id == mt.deleting[d].id
              filtered == SelectSeq(mt.models, LAMBDA m : m.id # id)
              after == [mt EXCEPT !.models = filtered,
                                  !.selectedModelId =
                                      IF mt.deleting[d].selectedModelId = id THEN "" ELSE @,
                                  !.deleting = WithoutIndex(@, d)]
          IN  mt' = AutoSaveEffect(after)
    /\ UNCHANGED <<retryVars, op, request, videoVars, ig, apiKey, reply, taskVars, sb, viewVars>>

AutoSaveNext ==
    \/ AutoSaveModelsLoaded
    \/ TrainerSelectModel
    \/ TrainerBack
    \/ UpdateSelectedName
    \/ AutoSaveTimerFires
    \/ DeleteModel
    \/ DeleteModelResumes

SpecAutoSave == AutoSaveInit /\ [][AutoSaveNext]_vars

\* C38: once the deleteById request of a persona has been issued, no save
\* request for that persona is issued
C38_NoSaveAfterDelete ==
    \A i \in 1..Len(mt.requests) : \A j \in (i + 1)..Len(mt.requests) :
        ~(/\ mt.requests[i].api = "deleteById"
          /\ mt.requests[j].api = "save"
          /\ mt.requests[j].id = mt.requests[i].id)

(***************************************************************************)
(* App and ApiKeyModal                                                     *)
(***************************************************************************)
MaxChecks == 3
MaxPrompts == 2

AppModes ==
    {"GENERATE_IMAGE", "GENERATE_VIDEO", "STORYBOARD", "EDIT_IMAGE", "ANALYZE",
     "TRAIN_MODEL"}

\* what App renders below the modal: the content of the current mode when
\* isKeyVerified, the waiting notice otherwise
Render(a) ==
    [a EXCEPT !.content = IF a.isKeyVerified THEN a.currentMode ELSE "waiting"]

\* a render of App passes a new onVerified to ApiKeyModal, whose effect
\* calls checkApiKey() again
AppRenders(a) ==
    IF a.checked < MaxChecks
    THEN Render([a EXCEPT !.checking = @ + 1, !.checked = @ + 1])
    ELSE Render(a)

\* onVerified(): setIsKeyVerified(true); App renders again when that changes
\* its state
OnVerified(a) ==
    IF a.isKeyVerified THEN a ELSE AppRenders([a EXCEPT !.isKeyVerified = TRUE])

\* App mounts, in a page with or without window.aistudio: useState defaults,
\* and the effect of ApiKeyModal has called checkApiKey()
AppInit ==
    /\ rpc = "idle"
    /\ retries = MAX_RETRIES
    /\ delay = Ms(RETRY_DELAY_MS)
    /\ calls = 0
    /\ waits = <<>>
    /\ first = NoResult
    /\ last = NoResult
    /\ outcome = Pending
    /\ op = [name |-> "none"]
    /\ request = NoRequest
    /\ vg = [mounted |-> FALSE]
    /\ gv = [pc |-> "idle"]
    /\ ig = [mounted |-> FALSE]
    /\ apiKey = "key-A"
    /\ reply = NoReply
    /\ tasks = <<>>
    /\ now = 0
    /\ sb = [mounted |-> FALSE]
    /\ mt = [mounted |-> FALSE]
    /\ an = [mounted |-> FALSE]
    /\ ed = [mounted |-> FALSE]
    /\ \E aistudio \in BOOLEAN :
          app = [mounted |-> TRUE, aistudio |-> aistudio,
                 currentMode |-> "GENERATE_IMAGE", isKeyVerified |-> FALSE,
                 content |-> "waiting", hasKey |-> FALSE, loading |-> FALSE,
                 pc |-> "idle", checking |-> 1, checked |-> 1, log |-> <<>>,
                 alerts |-> 0]

\* checkApiKey() resolves, with false when there is no window.aistudio and
\* with the answer of hasSelectedApiKey() otherwise: if (exists) {
\* setHasKey(true); onVerified(); }
CheckApiKeyAnswered ==
    /\ app.checking > 0
    /\ \E exists \in (IF app.aistudio THEN BOOLEAN ELSE {FALSE}) :
          LET a == [app EXCEPT !.checking = @ - 1,
                               !.log = Append(@, [fn |-> "checkApiKey", ok |-> TRUE,
                                                  value |-> exists])]
          IN  app' = IF exists THEN OnVerified([a EXCEPT !.hasKey = TRUE]) ELSE a
    /\ UNCHANGED <<retryVars, op, request, videoVars, ig, apiKey, reply, taskVars,
                   sb, mt, an, ed>>

\* hasSelectedApiKey() rejects: the promise of checkApiKey() has no catch
CheckApiKeyFails ==
    /\ app.checking > 0
    /\ app.aistudio
    /\ app' = [app EXCEPT !.checking = @ - 1,
                          !.log = Append(@, [fn |-> "checkApiKey", ok |-> FALSE])]
    /\ UNCHANGED <<retryVars, op, request, videoVars, ig, apiKey, reply, taskVars,
                   sb, mt, an, ed>>

\* handleSelectKey up to await promptForKeySelection(); the modal is shown
\* while hasKey is false and its button is disabled while loading
HandleSelectKey ==
    /\ ~app.hasKey
    /\ ~app.loading
    /\ app.pc = "idle"
    /\ Len(SelectSeq(app.log, LAMBDA e : e.fn = "promptForKeySelection")) < MaxPrompts
    /\ app' = [app EXCEPT !.loading = TRUE, !.pc = "prompting"]
    /\ UNCHANGED <<retryVars, op, request, videoVars, ig, apiKey, reply, taskVars,
                   sb, mt, an, ed>>

\* promptForKeySelection() resolves, after openSelectKey() or at once when
\* there is no window.aistudio: setHasKey(true), onVerified(), and finally
\* setLoading(false)
SelectKeyResolves ==
    /\ app.pc = "prompting"
    /\ app' = OnVerified([app EXCEPT !.hasKey = TRUE, !.loading = FALSE, !.pc = "idle",
                                     !.log = Append(@, [fn |-> "promptForKeySelection",
                                                        ok |-> TRUE])])
    /\ UNCHANGED <<retryVars, op, request, videoVars, ig, apiKey, reply, taskVars,
                   sb, mt, an, ed>>

\* a handleSelectKey that calls onVerified() in its finally block
SelectKeyRejectsVerifies ==
    /\ app.pc = "prompting"
    /\ app.aistudio
    /\ app' = OnVerified([app EXCEPT !.alerts = @ + 1, !.loading = FALSE, !.pc = "idle",
                                     !.log = Append(@, [fn |-> "promptForKeySelection",
                                                        ok |-> FALSE])])
    /\ UNCHANGED <<retryVars, op, request, videoVars, ig, apiKey, reply, taskVars,
                   sb, mt, an, ed>>

\* openSelectKey() rejects: the alert, and finally setLoading(false)
SelectKeyRejects ==
    /\ app.pc = "prompting"
    /\ app.aistudio
    /\ app' = [app EXCEPT !.alerts = @ + 1, !.loading = FALSE, !.pc = "idle",
                          !.log = Append(@, [fn |-> "promptForKeySelection",
                                             ok |-> FALSE])]
    /\ UNCHANGED <<retryVars, op, request, videoVars, ig, apiKey, reply, taskVars,
                   sb, mt, an, ed>>

\* onModeChange of the Sidebar, which is rendered when isKeyVerified
SetCurrentMode ==
    /\ app.isKeyVerified
    /\ \E mode \in AppModes :
          /\ mode # app.currentMode
          /\ app' = AppRenders([app EXCEPT !.currentMode = mode])
    /\ UNCHANGED <<retryVars, op, request, videoVars, ig, apiKey, reply, taskVars,
                   sb, mt, an, ed>>

AppNext ==
    \/ CheckApiKeyAnswered
    \/ CheckApiKeyFails
    \/ HandleSelectKey
    \/ SelectKeyResolves
    \/ SelectKeyRejects
    \/ SetCurrentMode

SpecApp == AppInit /\ [][AppNext]_vars

\* a call of checkApiKey() resolved with true, or a call of
\* promptForKeySelection() resolved
CredentialConfirmed ==
    \E i \in 1..Len(app.log) :
        /\ app.log[i].ok
        /\ app.log[i].fn = "checkApiKey" => app.log[i].value

\* C39: the content is rendered only while isKeyVerified; isKeyVerified is
\* true only after checkApiKey() returned true or promptForKeySelection()
\* completed without error, a failed prompt does not set it, and once true it
\* stays true
C39_ContentOnlyWhenKeyVerified ==
    /\ [](app.content \in AppModes => app.isKeyVerified)
    /\ [](app.isKeyVerified => CredentialConfirmed)
    /\ [][app.isKeyVerified => app'.isKeyVerified]_vars
    /\ [][(app.pc = "prompting" /\ app'.pc = "idle" /\ ~app'.log[Len(app'.log)].ok)
            => app'.isKeyVerified = app.isKeyVerified]_vars

\* the content of another mode is shown after a prompt that failed and one
\* that succeeded, hasSelectedApiKey() having answered false
C39_Witness ==
    /\ app.isKeyVerified
    /\ app.content = "GENERATE_VIDEO"
    /\ \E i \in 1..Len(app.log) : app.log[i].fn = "promptForKeySelection" /\ ~app.log[i].ok
    /\ \A i \in 1..Len(app.log) : app.log[i].fn = "checkApiKey" => ~app.log[i].ok \/ ~app.log[i].value

=============================================================================
